---- MODULE Spec2Model ----
(***************************************************************************)
(* Check-in / check-out lifecycle, scoring, streaks and explorer           *)
(* achievements of project-masjid-backend.                                 *)
(*                                                                         *)
(* Stores: user_profile, check_in, user_achievement, daily_masjid_stats    *)
(* (relational) and the masjid directory (key-value).  Coordinates are     *)
(* points on one meridian, given as a whole number of decimetres north of  *)
(* a reference point; on a meridian the haversine distance is the          *)
(* difference of the two offsets.  Time is counted in calendar days.       *)
(***************************************************************************)
EXTENDS Integers, Sequences, FiniteSets, TLC

VARIABLES profiles, visits, achievements, dailyStats, directory, now, last,
          pc, loc

vars == <<profiles, visits, achievements, dailyStats, directory, now, last,
          pc, loc>>

store == <<profiles, visits, achievements, dailyStats>>

----------------------------------------------------------------------------
(* Bounds *)

MaxVisits == 2
MaxDay == 1
MaxStreakVisits == 3
MaxStreakDay == 3

Users == {"u1", "u2"}
MasjidIds == {"mA", "mB"}
Positions == {500, 504}
Procs == {1, 2}
ProgressValues == 0 .. 3

----------------------------------------------------------------------------
(* Values standing for null / undefined / NaN *)

Null == -1
Undefined == -2
NaN == -3

----------------------------------------------------------------------------
(* Points configuration *)

BASE_VISIT_COMPLETED == 10
BASE_VISIT_INCOMPLETE == 5
PRAYER_TIME_BONUS == 10
FIRST_VISIT_BONUS == 5
DEFAULT_CHECKIN_RADIUS_M == 100

POINTS == [BASE_VISIT_COMPLETED |-> BASE_VISIT_COMPLETED,
           BASE_VISIT_INCOMPLETE |-> BASE_VISIT_INCOMPLETE,
           PRAYER_TIME_BONUS |-> PRAYER_TIME_BONUS,
           FIRST_VISIT_BONUS |-> FIRST_VISIT_BONUS]

----------------------------------------------------------------------------
(* Response messages *)

MsgAlreadyCheckedIn == "You already have an active check-in. Please checkout first."
MsgMasjidNotFound == "Masjid not found"
MsgTooFar == "Too far from masjid"
MsgCheckinOk == "Check-in successful"
MsgNoProfile == "User profile not found"
MsgNoActive == "No active check-in found"
MsgCheckoutFull == "Checkout successful! Full points earned."
MsgCheckoutPartial == "Checkout completed outside proximity. Partial points earned."

----------------------------------------------------------------------------
(* The masjid directory: mA has its own admission radius (50 m), mB has    *)
(* none (100 m applies).  From either position one masjid is exactly at    *)
(* its radius and the other 0.4 m beyond it.  An id stops resolving once   *)
(* RemoveMasjid has deleted its item.                                      *)

InitialDirectory ==
  [m \in {"mA", "mB"} |->
     IF m = "mA" THEN [lat |-> 0, checkinRadiusM |-> 50]
                 ELSE [lat |-> 1504, checkinRadiusM |-> Undefined]]

(* Achievement catalogue (achievement_definition rows), in sortOrder. *)
AchievementDefinitions ==
  << [id |-> "explorer_1", type |-> "explorer", requiredCount |-> 1,
      bonusPoints |-> 25, isActive |-> TRUE],
     [id |-> "explorer_2", type |-> "explorer", requiredCount |-> 2,
      bonusPoints |-> 50, isActive |-> TRUE],
     [id |-> "streak_2", type |-> "streak", requiredCount |-> 2,
      bonusPoints |-> 30, isActive |-> TRUE],
     [id |-> "explorer_old", type |-> "explorer", requiredCount |-> 1,
      bonusPoints |-> 40, isActive |-> FALSE] >>

----------------------------------------------------------------------------
(* Arithmetic helpers *)

Abs(x) == IF x < 0 THEN -x ELSE x

Max(a, b) == IF a >= b THEN a ELSE b

Min(a, b) == IF a <= b THEN a ELSE b

(* Math.round of a non-negative length given in decimetres, in metres *)
RoundM(dm) == (dm + 5) \div 10

----------------------------------------------------------------------------
(* Distance oracle.  The result is in decimetres; an undefined coordinate  *)
(* makes every term of the formula NaN.                                    *)

haversineDistance_Northward(lat1, lat2) ==
  IF lat1 = Undefined \/ lat2 = Undefined THEN NaN ELSE Max(lat2 - lat1, 0)

haversineDistance(lat1, lat2) ==
  IF lat1 = Undefined \/ lat2 = Undefined THEN NaN ELSE Abs(lat2 - lat1)

(* distanceM > checkinRadiusM and distanceM <= checkinRadiusM on doubles:  *)
(* every comparison with NaN is false.  The radius is in metres.           *)
Greater_OrEqual(distanceDm, radiusM) ==
  distanceDm # NaN /\ distanceDm >= radiusM * 10

Greater(distanceDm, radiusM) == distanceDm # NaN /\ distanceDm > radiusM * 10

LessEq_Strict(distanceDm, radiusM) ==
  distanceDm # NaN /\ distanceDm < radiusM * 10

LessEq(distanceDm, radiusM) == distanceDm # NaN /\ distanceDm <= radiusM * 10

(* (masjid.checkinRadiusM as number) || 100 : undefined and 0 are falsy *)
RadiusOrDefault(masjid) ==
  IF masjid.checkinRadiusM = Undefined \/ masjid.checkinRadiusM = 0
  THEN DEFAULT_CHECKIN_RADIUS_M
  ELSE masjid.checkinRadiusM

----------------------------------------------------------------------------
(* Directory store *)

(* getMasjidById: the item, or no item when the key does not resolve *)
NoItem == <<>>

Found(masjid) == DOMAIN masjid # {}

getMasjidById(D, masjidId) ==
  IF masjidId \in DOMAIN D THEN D[masjidId] ELSE NoItem

----------------------------------------------------------------------------
(* Profile store.  A profile is keyed by its user id (user_id is unique);  *)
(* the profile id of a user's profile is the user id.                      *)

NewUserProfile ==
  [totalPoints |-> 0, monthlyPoints |-> 0, uniqueMasjidsVisited |-> 0,
   totalCheckIns |-> 0, achievementCount |-> 0, currentStreak |-> 0,
   longestStreak |-> 0, lastVisitDate |-> Null,
   globalRank |-> Null, monthlyRank |-> Null]

getOrCreateUserProfile_Overwrite(P, userId) ==
  (userId :> NewUserProfile) @@ P

getOrCreateUserProfile(P, userId) ==
  IF userId \in DOMAIN P THEN P ELSE P @@ (userId :> NewUserProfile)

StatsUpdate_NoMonthly(current, pointsEarned, isNewMasjid, today) ==
  [current EXCEPT
     !.totalPoints = current.totalPoints + pointsEarned,
     !.uniqueMasjidsVisited =
         IF isNewMasjid THEN current.uniqueMasjidsVisited + 1
                        ELSE current.uniqueMasjidsVisited,
     !.totalCheckIns = current.totalCheckIns + 1,
     !.currentStreak = 1,
     !.longestStreak = Max(1, current.longestStreak),
     !.lastVisitDate = today]

StatsUpdate_LongestFollows(current, pointsEarned, isNewMasjid, today) ==
  LET daysDiff == today - current.lastVisitDate
      newStreak ==
        IF current.lastVisitDate # Null
        THEN IF daysDiff = 1 THEN current.currentStreak + 1
             ELSE IF daysDiff > 1 THEN 1
             ELSE current.currentStreak
        ELSE 1
  IN [current EXCEPT
        !.totalPoints = current.totalPoints + pointsEarned,
        !.monthlyPoints = current.monthlyPoints + pointsEarned,
        !.uniqueMasjidsVisited =
            IF isNewMasjid THEN current.uniqueMasjidsVisited + 1
                           ELSE current.uniqueMasjidsVisited,
        !.totalCheckIns = current.totalCheckIns + 1,
        !.currentStreak = newStreak,
        !.longestStreak = newStreak,
        !.lastVisitDate = today]

StatsUpdate_AlwaysNew(current, pointsEarned, isNewMasjid, today) ==
  [current EXCEPT
     !.totalPoints = current.totalPoints + pointsEarned,
     !.monthlyPoints = current.monthlyPoints + pointsEarned,
     !.uniqueMasjidsVisited = current.uniqueMasjidsVisited + 1,
     !.totalCheckIns = current.totalCheckIns + 1,
     !.lastVisitDate = today]

StatsUpdate_BrokenToZero(current, pointsEarned, isNewMasjid, today) ==
  LET daysDiff == today - current.lastVisitDate
      newStreak ==
        IF current.lastVisitDate # Null
        THEN IF daysDiff = 1 THEN current.currentStreak + 1
             ELSE IF daysDiff > 1 THEN 0
             ELSE current.currentStreak
        ELSE 1
      newLongestStreak ==
        IF current.lastVisitDate # Null
        THEN IF daysDiff = 1 THEN Max(newStreak, current.longestStreak)
             ELSE current.longestStreak
        ELSE 1
  IN [current EXCEPT
        !.totalPoints = current.totalPoints + pointsEarned,
        !.monthlyPoints = current.monthlyPoints + pointsEarned,
        !.uniqueMasjidsVisited =
            IF isNewMasjid THEN current.uniqueMasjidsVisited + 1
                           ELSE current.uniqueMasjidsVisited,
        !.totalCheckIns = current.totalCheckIns + 1,
        !.currentStreak = newStreak,
        !.longestStreak = newLongestStreak,
        !.lastVisitDate = today]

StatsUpdate_ResetOnSameDay(current, pointsEarned, isNewMasjid, today) ==
  LET daysDiff == today - current.lastVisitDate
      newStreak ==
        IF current.lastVisitDate # Null /\ daysDiff = 1
        THEN current.currentStreak + 1
        ELSE 1
  IN [current EXCEPT
        !.totalPoints = current.totalPoints + pointsEarned,
        !.monthlyPoints = current.monthlyPoints + pointsEarned,
        !.uniqueMasjidsVisited =
            IF isNewMasjid THEN current.uniqueMasjidsVisited + 1
                           ELSE current.uniqueMasjidsVisited,
        !.totalCheckIns = current.totalCheckIns + 1,
        !.currentStreak = newStreak,
        !.longestStreak = Max(newStreak, current.longestStreak),
        !.lastVisitDate = today]

(* updateUserStats: the profile row after the update, read at `current` *)
StatsUpdate(current, pointsEarned, isNewMasjid, today) ==
  LET daysDiff == today - current.lastVisitDate
      newStreak ==
        IF current.lastVisitDate # Null
        THEN IF daysDiff = 1 THEN current.currentStreak + 1
             ELSE IF daysDiff > 1 THEN 1
             ELSE current.currentStreak
        ELSE 1
      newLongestStreak ==
        IF current.lastVisitDate # Null
        THEN IF daysDiff = 1 THEN Max(newStreak, current.longestStreak)
             ELSE current.longestStreak
        ELSE 1
  IN [current EXCEPT
        !.totalPoints = current.totalPoints + pointsEarned,
        !.monthlyPoints = current.monthlyPoints + pointsEarned,
        !.uniqueMasjidsVisited =
            IF isNewMasjid THEN current.uniqueMasjidsVisited + 1
                           ELSE current.uniqueMasjidsVisited,
        !.totalCheckIns = current.totalCheckIns + 1,
        !.currentStreak = newStreak,
        !.longestStreak = newLongestStreak,
        !.lastVisitDate = today]

updateUserStats(P, profileId, pointsEarned, isNewMasjid, today) ==
  IF profileId \notin DOMAIN P THEN P
  ELSE [P EXCEPT ![profileId] =
          StatsUpdate(P[profileId], pointsEarned, isNewMasjid, today)]

----------------------------------------------------------------------------
(* Achievement evaluator *)

awardAchievementBonus_NoCount(P, profileId, bonusPoints) ==
  IF profileId \notin DOMAIN P THEN P
  ELSE [P EXCEPT ![profileId] =
          [@ EXCEPT !.totalPoints = @ + bonusPoints,
                    !.monthlyPoints = @ + bonusPoints]]

awardAchievementBonus_MonthlyOnly(P, profileId, bonusPoints) ==
  IF profileId \notin DOMAIN P THEN P
  ELSE [P EXCEPT ![profileId] =
          [@ EXCEPT !.monthlyPoints = @ + bonusPoints,
                    !.achievementCount = @ + 1]]

awardAchievementBonus(P, profileId, bonusPoints) ==
  IF profileId \notin DOMAIN P THEN P
  ELSE [P EXCEPT ![profileId] =
          [@ EXCEPT !.totalPoints = @ + bonusPoints,
                    !.monthlyPoints = @ + bonusPoints,
                    !.achievementCount = @ + 1]]

(* Math.min((currentProgress / requiredProgress) * 100, 100), whole part *)
ProgressPercentage(currentProgress, requiredProgress) ==
  Min((currentProgress * 100) \div requiredProgress, 100)

EvaluateAchievement_Reaward(S, profileId, uniqueMasjidsVisited, achievement, today) ==
  LET key == <<profileId, achievement.id>>
      isUnlocked == uniqueMasjidsVisited >= achievement.requiredCount
      row == [currentProgress |-> uniqueMasjidsVisited,
              requiredProgress |-> achievement.requiredCount,
              progressPercentage |->
                  ProgressPercentage(uniqueMasjidsVisited,
                                     achievement.requiredCount),
              isUnlocked |-> isUnlocked,
              unlockedAt |-> IF isUnlocked THEN today ELSE Null]
  IN IF achievement.requiredCount = 0 THEN S
     ELSE IF key \in DOMAIN S.ach /\ S.ach[key].isUnlocked /\ ~isUnlocked
     THEN S
     ELSE [ach |-> IF key \in DOMAIN S.ach
                   THEN IF S.ach[key].isUnlocked THEN S.ach
                        ELSE [S.ach EXCEPT ![key] = row]
                   ELSE S.ach @@ (key :> row),
           prof |-> IF isUnlocked
                    THEN awardAchievementBonus(S.prof, profileId,
                                               achievement.bonusPoints)
                    ELSE S.prof]

EvaluateAchievement_Relock(S, profileId, uniqueMasjidsVisited, achievement, today) ==
  LET key == <<profileId, achievement.id>>
      isUnlocked == uniqueMasjidsVisited >= achievement.requiredCount
      row == [currentProgress |-> uniqueMasjidsVisited,
              requiredProgress |-> achievement.requiredCount,
              progressPercentage |->
                  ProgressPercentage(uniqueMasjidsVisited,
                                     achievement.requiredCount),
              isUnlocked |-> isUnlocked,
              unlockedAt |-> IF isUnlocked THEN today ELSE Null]
  IN IF achievement.requiredCount = 0 THEN S
     ELSE IF key \in DOMAIN S.ach
     THEN [ach |-> [S.ach EXCEPT ![key] = row],
           prof |-> IF isUnlocked /\ ~S.ach[key].isUnlocked
                    THEN awardAchievementBonus(S.prof, profileId,
                                               achievement.bonusPoints)
                    ELSE S.prof]
     ELSE [ach |-> S.ach @@ (key :> row),
           prof |-> IF isUnlocked
                    THEN awardAchievementBonus(S.prof, profileId,
                                               achievement.bonusPoints)
                    ELSE S.prof]

EvaluateAchievement_NoBonusOnCreate(S, profileId, uniqueMasjidsVisited, achievement, today) ==
  LET key == <<profileId, achievement.id>>
      currentProgress == uniqueMasjidsVisited
      requiredProgress == achievement.requiredCount
      isUnlocked == currentProgress >= requiredProgress
      row == [currentProgress |-> currentProgress,
              requiredProgress |-> requiredProgress,
              progressPercentage |->
                  ProgressPercentage(currentProgress, requiredProgress),
              isUnlocked |-> isUnlocked,
              unlockedAt |-> IF isUnlocked THEN today ELSE Null]
  IN IF achievement.requiredCount = 0 THEN S
     ELSE IF key \in DOMAIN S.ach
     THEN IF S.ach[key].isUnlocked THEN S
          ELSE [ach |-> [S.ach EXCEPT ![key] =
                           [row EXCEPT !.requiredProgress =
                                          S.ach[key].requiredProgress]],
                prof |-> IF isUnlocked /\ ~S.ach[key].isUnlocked
                         THEN awardAchievementBonus(S.prof, profileId,
                                                    achievement.bonusPoints)
                         ELSE S.prof]
     ELSE [ach |-> S.ach @@ (key :> row), prof |-> S.prof]

(* One iteration of the loop of updateAchievementProgress, on the pair     *)
(* S = [ach |-> user_achievement rows, prof |-> user_profile rows].        *)
EvaluateAchievement(S, profileId, uniqueMasjidsVisited, achievement, today) ==
  LET key == <<profileId, achievement.id>>
      currentProgress == uniqueMasjidsVisited
      requiredProgress == achievement.requiredCount
      isUnlocked == currentProgress >= requiredProgress
      row == [currentProgress |-> currentProgress,
              requiredProgress |-> requiredProgress,
              progressPercentage |->
                  ProgressPercentage(currentProgress, requiredProgress),
              isUnlocked |-> isUnlocked,
              unlockedAt |-> IF isUnlocked THEN today ELSE Null]
  IN IF achievement.requiredCount = 0 THEN S
     ELSE IF key \in DOMAIN S.ach
     THEN IF S.ach[key].isUnlocked THEN S
          ELSE [ach |-> [S.ach EXCEPT ![key] =
                           [row EXCEPT !.requiredProgress =
                                          S.ach[key].requiredProgress]],
                prof |-> IF isUnlocked /\ ~S.ach[key].isUnlocked
                         THEN awardAchievementBonus(S.prof, profileId,
                                                    achievement.bonusPoints)
                         ELSE S.prof]
     ELSE [ach |-> S.ach @@ (key :> row),
           prof |-> IF isUnlocked
                    THEN awardAchievementBonus(S.prof, profileId,
                                               achievement.bonusPoints)
                    ELSE S.prof]

ExplorerAchievements_AnyActivity ==
  SelectSeq(AchievementDefinitions, LAMBDA a : a.type = "explorer")

(* The rows selected by the query: type = explorer and isActive *)
ExplorerAchievements ==
  SelectSeq(AchievementDefinitions,
            LAMBDA a : a.type = "explorer" /\ a.isActive)

RECURSIVE EvaluateFrom(_, _, _, _, _)
EvaluateFrom(S, profileId, uniqueMasjidsVisited, i, today) ==
  IF i > Len(ExplorerAchievements) THEN S
  ELSE EvaluateFrom(
         EvaluateAchievement(S, profileId, uniqueMasjidsVisited,
                             ExplorerAchievements[i], today),
         profileId, uniqueMasjidsVisited, i + 1, today)

updateAchievementProgress(A, P, profileId, uniqueMasjidsVisited, today) ==
  EvaluateFrom([ach |-> A, prof |-> P], profileId, uniqueMasjidsVisited,
               1, today)

----------------------------------------------------------------------------
(* Daily per-masjid statistics *)

updateDailyMasjidStats(D, masjidId, pointsAwarded, today) ==
  LET key == <<masjidId, today>>
  IN IF key \in DOMAIN D
     THEN [D EXCEPT ![key] =
             [@ EXCEPT !.visitorCount = @ + 1,
                       !.totalPointsAwarded = @ + pointsAwarded]]
     ELSE D @@ (key :> [visitorCount |-> 1, uniqueVisitorCount |-> 1,
                        totalPointsAwarded |-> pointsAwarded])

----------------------------------------------------------------------------
(* Visit store (check_in rows).  The id of a row is its index.             *)

getActiveCheckin_WrongStatus(V, profileId) ==
  LET open == {i \in DOMAIN V : /\ V[i].userProfileId = profileId
                                /\ V[i].status = "completed"}
  IN IF open = {} THEN {0} ELSE open

getActiveCheckin_AnyStatus(V, profileId) ==
  LET open == {i \in DOMAIN V : V[i].userProfileId = profileId}
  IN IF open = {} THEN {0} ELSE open

(* getActiveCheckin: SELECT ... WHERE user_profile_id = profileId AND      *)
(* status = 'checked_in' LIMIT 1, as the set of rows the query may return; *)
(* 0 stands for the empty result.                                          *)
getActiveCheckin(V, profileId) ==
  LET open == {i \in DOMAIN V : /\ V[i].userProfileId = profileId
                                /\ V[i].status = "checked_in"}
  IN IF open = {} THEN {0} ELSE open

previousVisits_CompletedOnly(V, profileId, masjidId) ==
  Cardinality({i \in DOMAIN V : /\ V[i].userProfileId = profileId
                                /\ V[i].masjidId = masjidId
                                /\ V[i].status = "completed"})

previousVisits_AnyMasjid(V, profileId, masjidId) ==
  Cardinality({i \in DOMAIN V : V[i].userProfileId = profileId})

(* The number of check_in rows of (profile, masjid) *)
previousVisits(V, profileId, masjidId) ==
  Cardinality({i \in DOMAIN V : /\ V[i].userProfileId = profileId
                                /\ V[i].masjidId = masjidId})

isPrayerTime == FALSE

(* The row inserted by performCheckin *)
NewCheckIn(profileId, masjidId, isFirstVisit) ==
  [userProfileId |-> profileId,
   masjidId |-> masjidId,
   checkOutAt |-> Null,
   checkOutLat |-> Null,
   status |-> "checked_in",
   basePoints |-> POINTS.BASE_VISIT_COMPLETED,
   bonusPoints |-> (IF isFirstVisit THEN POINTS.FIRST_VISIT_BONUS ELSE 0)
                 + (IF isPrayerTime THEN POINTS.PRAYER_TIME_BONUS ELSE 0),
   actualPointsEarned |-> 0,
   checkoutInProximity |-> "null",
   isPrayerTime |-> isPrayerTime,
   isFirstVisitToMasjid |-> isFirstVisit]

(* Exit proximity of a checkout at `lat` from the visit's masjid *)
CheckoutInProximity(masjid, lat) ==
  LET checkinRadiusM == IF Found(masjid) THEN RadiusOrDefault(masjid)
                                         ELSE DEFAULT_CHECKIN_RADIUS_M
      masjidLat == IF Found(masjid) THEN masjid.lat ELSE Undefined
      distanceDm == haversineDistance(lat, masjidLat)
  IN LessEq(distanceDm, checkinRadiusM)

CheckedOut_DropBonus(active, masjid, lat, checkOutTime) ==
  LET checkoutInProximity == CheckoutInProximity(masjid, lat)
      basePoints == IF checkoutInProximity THEN POINTS.BASE_VISIT_COMPLETED
                                           ELSE POINTS.BASE_VISIT_INCOMPLETE
  IN [active EXCEPT
        !.checkOutAt = checkOutTime,
        !.checkOutLat = lat,
        !.status = IF checkoutInProximity THEN "completed" ELSE "incomplete",
        !.basePoints = basePoints,
        !.actualPointsEarned = IF checkoutInProximity
                               THEN basePoints + active.bonusPoints
                               ELSE basePoints,
        !.checkoutInProximity = IF checkoutInProximity THEN "true" ELSE "false"]

CheckedOut_RequiresMasjid(active, masjid, lat, checkOutTime) ==
  LET checkoutInProximity == CheckoutInProximity(masjid, lat)
      basePoints == IF checkoutInProximity THEN POINTS.BASE_VISIT_COMPLETED
                                           ELSE POINTS.BASE_VISIT_INCOMPLETE
  IN IF ~Found(masjid) THEN active
     ELSE [active EXCEPT
        !.checkOutAt = checkOutTime,
        !.checkOutLat = lat,
        !.status = IF checkoutInProximity THEN "completed" ELSE "incomplete",
        !.basePoints = basePoints,
        !.actualPointsEarned = basePoints + active.bonusPoints,
        !.checkoutInProximity = IF checkoutInProximity THEN "true" ELSE "false"]

(* The row written by performCheckout over the row `active` it read *)
CheckedOut(active, masjid, lat, checkOutTime) ==
  LET checkoutInProximity == CheckoutInProximity(masjid, lat)
      basePoints == IF checkoutInProximity THEN POINTS.BASE_VISIT_COMPLETED
                                           ELSE POINTS.BASE_VISIT_INCOMPLETE
  IN [active EXCEPT
        !.checkOutAt = checkOutTime,
        !.checkOutLat = lat,
        !.status = IF checkoutInProximity THEN "completed" ELSE "incomplete",
        !.basePoints = basePoints,
        !.actualPointsEarned = basePoints + active.bonusPoints,
        !.checkoutInProximity = IF checkoutInProximity THEN "true" ELSE "false"]

----------------------------------------------------------------------------
(* Requests and responses.  `last` is the most recent event: for a request *)
(* the caller, the result value returned to it, and the distance the       *)
(* request measured (distanceDm; distanceM and thresholdM are the two      *)
(* numbers of the too-far message).                                        *)

Response(op, userId, success, message, checkIn, points, dDm, dM, thrM) ==
  [op |-> op, userId |-> userId, success |-> success, message |-> message,
   checkIn |-> checkIn, pointsEarned |-> points,
   distanceDm |-> dDm, distanceM |-> dM, thresholdM |-> thrM]

Event(op) == Response(op, "", FALSE, "", 0, Null, Null, Null, Null)

----------------------------------------------------------------------------
(* Initial state: empty stores, seeded directory *)

Init ==
  /\ profiles = <<>>
  /\ visits = <<>>
  /\ achievements = <<>>
  /\ dailyStats = <<>>
  /\ directory = InitialDirectory
  /\ now = 0
  /\ last = Event("init")
  /\ pc = [p \in Procs |-> "idle"]
  /\ loc = [p \in Procs |-> <<>>]

----------------------------------------------------------------------------
(* performCheckin, run to completion *)

CheckinGate_LookupFirst(activeCheckin, masjid, lat) ==
  IF ~Found(masjid) THEN MsgMasjidNotFound
  ELSE IF activeCheckin # 0 THEN MsgAlreadyCheckedIn
  ELSE IF Greater(haversineDistance(lat, masjid.lat), RadiusOrDefault(masjid))
       THEN MsgTooFar
  ELSE MsgCheckinOk

(* The gates of performCheckin, in the order the code applies them *)
CheckinGate(activeCheckin, masjid, lat) ==
  IF activeCheckin # 0 THEN MsgAlreadyCheckedIn
  ELSE IF ~Found(masjid) THEN MsgMasjidNotFound
  ELSE IF Greater(haversineDistance(lat, masjid.lat), RadiusOrDefault(masjid))
       THEN MsgTooFar
  ELSE MsgCheckinOk

performCheckin(userId, masjidId, lat) ==
  LET P1 == getOrCreateUserProfile(profiles, userId)
      profileId == userId
      masjid == getMasjidById(directory, masjidId)
      checkinRadiusM == RadiusOrDefault(masjid)
      distanceDm == haversineDistance(lat, masjid.lat)
      isFirstVisit == previousVisits(visits, profileId, masjidId) = 0
  IN /\ profiles' = P1
     /\ UNCHANGED <<achievements, dailyStats, directory, now, pc, loc>>
     /\ \E activeCheckin \in getActiveCheckin(visits, profileId) :
          LET gate == CheckinGate(activeCheckin, masjid, lat)
          IN IF gate = MsgAlreadyCheckedIn \/ gate = MsgMasjidNotFound
             THEN /\ visits' = visits
                  /\ last' = Response("checkin", userId, FALSE, gate, 0,
                                      Null, Null, Null, Null)
             ELSE IF gate = MsgTooFar
             THEN /\ visits' = visits
                  /\ last' = Response("checkin", userId, FALSE, gate, 0,
                                      Null, distanceDm, RoundM(distanceDm),
                                      checkinRadiusM)
             ELSE /\ visits' = Append(visits,
                                 NewCheckIn(profileId, masjidId, isFirstVisit))
                  /\ last' = Response("checkin", userId, TRUE, gate,
                                      Len(visits) + 1, Null, distanceDm,
                                      Null, Null)

----------------------------------------------------------------------------
(* performCheckout, run to completion *)

performCheckout(userId, lat) ==
  LET profileId == userId
  IN /\ UNCHANGED <<directory, now, pc, loc>>
     /\ IF userId \notin DOMAIN profiles
        THEN /\ UNCHANGED store
             /\ last' = Response("checkout", userId, FALSE, MsgNoProfile, 0,
                                 Null, Null, Null, Null)
        ELSE \E activeId \in getActiveCheckin(visits, profileId) :
          IF activeId = 0
          THEN /\ UNCHANGED store
               /\ last' = Response("checkout", userId, FALSE, MsgNoActive, 0,
                                   Null, Null, Null, Null)
          ELSE
            LET active == visits[activeId]
                masjid == getMasjidById(directory, active.masjidId)
                checkoutInProximity == CheckoutInProximity(masjid, lat)
                updated == CheckedOut(active, masjid, lat, now)
                actualPointsEarned == updated.actualPointsEarned
                P1 == updateUserStats(profiles, profileId, actualPointsEarned,
                                      active.isFirstVisitToMasjid, now)
                updatedProfile == profiles[userId]
                newUniqueMasjids ==
                  IF active.isFirstVisitToMasjid
                  THEN updatedProfile.uniqueMasjidsVisited + 1
                  ELSE updatedProfile.uniqueMasjidsVisited
                S == updateAchievementProgress(achievements, P1, profileId,
                                               newUniqueMasjids, now)
            IN /\ visits' = [visits EXCEPT ![activeId] = updated]
               /\ profiles' = S.prof
               /\ achievements' = S.ach
               /\ dailyStats' = updateDailyMasjidStats(dailyStats,
                                   active.masjidId, actualPointsEarned, now)
               /\ last' = Response("checkout", userId, TRUE,
                                   IF checkoutInProximity
                                   THEN MsgCheckoutFull
                                   ELSE MsgCheckoutPartial,
                                   activeId, actualPointsEarned, Null, Null,
                                   Null)

----------------------------------------------------------------------------
(* Environment: the calendar advances; a directory record disappears.      *)

Tick ==
  /\ now < MaxDay
  /\ now' = now + 1
  /\ last' = Event("tick")
  /\ UNCHANGED <<store, directory, pc, loc>>

RemoveMasjid(masjidId) ==
  /\ masjidId \in DOMAIN directory
  /\ directory' = [m \in DOMAIN directory \ {masjidId} |-> directory[m]]
  /\ last' = Event("remove")
  /\ UNCHANGED <<store, now, pc, loc>>

----------------------------------------------------------------------------
(* Requests served one at a time *)

Checkin == \E u \in Users, m \in MasjidIds, lat \in Positions :
             performCheckin(u, m, lat) /\ Len(visits') <= MaxVisits

Checkout == \E u \in Users, lat \in Positions : performCheckout(u, lat)

Remove == \E m \in MasjidIds : RemoveMasjid(m)

Next == Checkin \/ Checkout \/ Tick \/ Remove

Spec == Init /\ [][Next]_vars

----------------------------------------------------------------------------
(* Scheduled jobs and the stand-alone achievement evaluation *)

(* resetMonthlyPoints: an update of every user_profile row *)
resetMonthlyPoints ==
  /\ profiles' = [u \in DOMAIN profiles |->
                    [profiles[u] EXCEPT !.monthlyPoints = 0,
                                        !.monthlyRank = Null]]
  /\ last' = Event("resetMonthlyPoints")
  /\ UNCHANGED <<visits, achievements, dailyStats, directory, now, pc, loc>>

RankOrders_Ascending(P, points) ==
  {r \in [DOMAIN P -> 1 .. Cardinality(DOMAIN P)] :
     /\ \A u, w \in DOMAIN P : u # w => r[u] # r[w]
     /\ \A u, w \in DOMAIN P : P[u][points] < P[w][points] => r[u] < r[w]}

(* The orders ORDER BY points DESC may return: position 1 .. n of each     *)
(* profile, profiles with equal points in any order                        *)
RankOrders(P, points) ==
  {r \in [DOMAIN P -> 1 .. Cardinality(DOMAIN P)] :
     /\ \A u, w \in DOMAIN P : u # w => r[u] # r[w]
     /\ \A u, w \in DOMAIN P : P[u][points] > P[w][points] => r[u] < r[w]}

(* recalculateRanks: globalRank and monthlyRank become the positions *)
recalculateRanks ==
  /\ \E g \in RankOrders(profiles, "totalPoints"),
        m \in RankOrders(profiles, "monthlyPoints") :
       profiles' = [u \in DOMAIN profiles |->
                      [profiles[u] EXCEPT !.globalRank = g[u],
                                          !.monthlyRank = m[u]]]
  /\ last' = Event("recalculateRanks")
  /\ UNCHANGED <<visits, achievements, dailyStats, directory, now, pc, loc>>

(* updateAchievementProgress(profileId, uniqueMasjidsVisited) on its own *)
Evaluate(profileId, uniqueMasjidsVisited) ==
  LET S == updateAchievementProgress(achievements, profiles, profileId,
                                     uniqueMasjidsVisited, now)
  IN /\ profileId \in DOMAIN profiles
     /\ profiles' = S.prof
     /\ achievements' = S.ach
     /\ last' = [Event("evaluate") EXCEPT !.userId = profileId,
                                          !.checkIn = uniqueMasjidsVisited]
     /\ UNCHANGED <<visits, dailyStats, directory, now, pc, loc>>

----------------------------------------------------------------------------
(* One user over several days *)

DaysUser == "u1"

CheckinDays == \E m \in MasjidIds, lat \in Positions :
                 /\ performCheckin(DaysUser, m, lat)
                 /\ Len(visits') <= MaxStreakVisits

CheckoutDays == \E lat \in Positions : performCheckout(DaysUser, lat)

TickDays ==
  /\ now < MaxStreakDay
  /\ now' = now + 1
  /\ last' = Event("tick")
  /\ UNCHANGED <<store, directory, pc, loc>>

NextDays == CheckinDays \/ CheckoutDays \/ TickDays

SpecDays == Init /\ [][NextDays]_vars

----------------------------------------------------------------------------
(* One user visiting one masjid over several days, with the scheduled jobs *)
(* and stand-alone achievement evaluations in between                      *)

JobsMasjid == "mA"
JobsPosition == 500
JobsProgress == {0, 2}

CheckinJobs ==
  /\ performCheckin(DaysUser, JobsMasjid, JobsPosition)
  /\ Len(visits') <= MaxStreakVisits

CheckoutJobs == performCheckout(DaysUser, JobsPosition)

EvaluateJobs == \E n \in JobsProgress : Evaluate(DaysUser, n)

NextJobs ==
  \/ CheckinJobs
  \/ CheckoutJobs
  \/ TickDays
  \/ resetMonthlyPoints
  \/ recalculateRanks
  \/ EvaluateJobs

SpecJobs == Init /\ [][NextJobs]_vars

-----------------------------------------------------------------------------
(* The check-out route: POST /masjids/:id/checkout. The handler reads the   *)
(* session user and the body's coordinates, rejects a request whose lat is  *)
(* falsy, and calls performCheckout(session.user.id, body.lat, body.lng);   *)
(* the path parameter id is never read. Requests carry any poi id, known or *)
(* unknown, and any latitude including 0.                                   *)

PathIds == MasjidIds \cup {"mX"}

RouteLats == Positions \cup {0}

MsgLatLngRequired == "lat and lng are required"

CheckoutRoute_PathMasjid(userId, id, lat) ==
  IF lat = 0
  THEN /\ UNCHANGED <<store, directory, now, pc, loc>>
       /\ last' = Response("checkout", userId, FALSE, MsgLatLngRequired, 0,
                           Null, Null, Null, Null)
  ELSE IF \E a \in getActiveCheckin(visits, userId) :
             a # 0 /\ visits[a].masjidId # id
       THEN /\ UNCHANGED <<store, directory, now, pc, loc>>
            /\ last' = Response("checkout", userId, FALSE, MsgNoActive, 0,
                                Null, Null, Null, Null)
       ELSE performCheckout(userId, lat)

CheckoutRoute(userId, id, lat) ==
  IF lat = 0
  THEN /\ UNCHANGED <<store, directory, now, pc, loc>>
       /\ last' = Response("checkout", userId, FALSE, MsgLatLngRequired, 0,
                           Null, Null, Null, Null)
  ELSE performCheckout(userId, lat)

(* The pois of the Visits the user has open *)
OpenMasjids(userId) ==
  {visits[a].masjidId : a \in getActiveCheckin(visits, userId) \ {0}}

CheckinRoute ==
  \E u \in Users, m \in MasjidIds, lat \in Positions :
    /\ performCheckin(u, m, lat)
    /\ Len(visits') <= MaxVisits

(* a request whose path names the poi of the user's open Visit *)
CheckoutOwnRoute ==
  \E u \in Users, id \in PathIds, lat \in RouteLats :
    /\ id \in OpenMasjids(u)
    /\ CheckoutRoute(u, id, lat)

(* a request whose path names another poi, or no poi of the directory *)
CheckoutOtherRoute ==
  \E u \in Users, id \in PathIds, lat \in RouteLats :
    /\ id \notin OpenMasjids(u)
    /\ CheckoutRoute(u, id, lat)

NextRoute == CheckinRoute \/ CheckoutOwnRoute \/ CheckoutOtherRoute

SpecRoute == Init /\ [][NextRoute]_vars

----------------------------------------------------------------------------
(* One user's requests with stand-alone achievement evaluations in between *)

CheckinEval == \E m \in MasjidIds, lat \in Positions :
                 /\ performCheckin(DaysUser, m, lat)
                 /\ Len(visits') <= MaxVisits

EvaluateEval == \E n \in ProgressValues : Evaluate(DaysUser, n)

NextEval == CheckinEval \/ CheckoutDays \/ Tick \/ EvaluateEval

SpecEval == Init /\ [][NextEval]_vars

----------------------------------------------------------------------------
(* The same requests for a profile that holds a progress record of an      *)
(* achievement deactivated since the record was written: the locked record *)
(* an evaluation with no masjid visited had created for explorer_old       *)

InitDormant ==
  /\ profiles = (DaysUser :> NewUserProfile)
  /\ visits = <<>>
  /\ achievements =
       (<<DaysUser, "explorer_old">> :>
          [currentProgress |-> 0, requiredProgress |-> 1,
           progressPercentage |-> 0, isUnlocked |-> FALSE,
           unlockedAt |-> Null])
  /\ dailyStats = <<>>
  /\ directory = InitialDirectory
  /\ now = 0
  /\ last = Event("init")
  /\ pc = [p \in Procs |-> "idle"]
  /\ loc = [p \in Procs |-> <<>>]

SpecDormant == InitDormant /\ [][NextEval]_vars

----------------------------------------------------------------------------
(* Rank queries between the requests of two users and the scheduled jobs *)

getUserRank_Cached(P, userId) ==
  IF userId \notin DOMAIN P
  THEN [globalRank |-> Null, monthlyRank |-> Null]
  ELSE [globalRank |-> P[userId].globalRank,
        monthlyRank |-> P[userId].monthlyRank]

(* getUserRank: one more than the number of profiles with more points *)
getUserRank(P, userId) ==
  IF userId \notin DOMAIN P
  THEN [globalRank |-> Null, monthlyRank |-> Null]
  ELSE LET userPoints == P[userId].totalPoints
           userMonthlyPoints == P[userId].monthlyPoints
       IN [globalRank |->
             Cardinality({w \in DOMAIN P : P[w].totalPoints > userPoints}) + 1,
           monthlyRank |->
             Cardinality({w \in DOMAIN P :
                            P[w].monthlyPoints > userMonthlyPoints}) + 1]

(* A call of getUserRank(userId) *)
UserRank ==
  /\ \E u \in Users :
       LET rank == getUserRank(profiles, u)
       IN last' = [op |-> "rank", userId |-> u, success |-> TRUE,
                   message |-> "", checkIn |-> 0,
                   globalRank |-> rank.globalRank,
                   monthlyRank |-> rank.monthlyRank]
  /\ UNCHANGED <<store, directory, now, pc, loc>>

CheckinRank == \E u \in Users :
                 /\ performCheckin(u, JobsMasjid, JobsPosition)
                 /\ Len(visits') <= MaxVisits

CheckoutRank == \E u \in Users, lat \in Positions : performCheckout(u, lat)

NextRank ==
  \/ CheckinRank
  \/ CheckoutRank
  \/ resetMonthlyPoints
  \/ recalculateRanks
  \/ UserRank

SpecRank == Init /\ [][NextRank]_vars

----------------------------------------------------------------------------
(* Distance measurements between the points of the meridian, north and     *)
(* south of the reference point                                            *)

DistanceLats ==
  {-98363, -500, 0, 500, 504, 1504, 48863, 48900, 50000, 60000, 98363}

(* haversineDistance evaluated from a to b, from b to a and from a to a *)
Measure ==
  /\ \E a, b \in DistanceLats :
       last' = [op |-> "distance", userId |-> "", success |-> TRUE,
                message |-> "", checkIn |-> 0, a |-> a, b |-> b,
                ab |-> haversineDistance(a, b),
                ba |-> haversineDistance(b, a),
                aa |-> haversineDistance(a, a)]
  /\ UNCHANGED <<store, directory, now, pc, loc>>

NextDistance == Measure

SpecDistance == Init /\ [][NextDistance]_vars

----------------------------------------------------------------------------
(* Leaderboard entries.  A string is the sequence of its characters.       *)

MaxNameLen == 3

Letters == {"A", "l", "i"}

UserNames == UNION {[1 .. n -> Letters] : n \in 1 .. MaxNameLen}

(* leaderboardAlias: an alias, or the empty sequence for the falsy values  *)
(* null and ""                                                             *)
LeaderboardAliases == {<<>>, <<"Z", "e", "d">>}

(* "*".repeat(n) *)
Stars(n) == [k \in 1 .. n |-> "*"]

censorName(name) ==
  IF Len(name) <= 2
  THEN <<name[1]>> \o Stars(Len(name) - 1)
  ELSE <<name[1]>> \o Stars(Len(name) - 2) \o <<name[Len(name)]>>

(* row.leaderboardAlias || censorName(row.userName) *)
displayName(row) ==
  IF row.leaderboardAlias # <<>>
  THEN row.leaderboardAlias
  ELSE censorName(row.userName)

(* The entry getMonthlyLeaderboard and getGlobalLeaderboard make of a row  *)
(* of user_profile joined with user                                        *)
LeaderboardEntry ==
  /\ \E userName \in UserNames, leaderboardAlias \in LeaderboardAliases,
        showFullNameInLeaderboard \in BOOLEAN :
       LET row == [userName |-> userName,
                   leaderboardAlias |-> leaderboardAlias,
                   showFullNameInLeaderboard |-> showFullNameInLeaderboard]
       IN last' = [op |-> "leaderboard", userId |-> "", success |-> TRUE,
                   message |-> "", checkIn |-> 0, row |-> row,
                   displayName |-> displayName(row)]
  /\ UNCHANGED <<store, directory, now, pc, loc>>

NextBoard == LeaderboardEntry

SpecBoard == Init /\ [][NextBoard]_vars

----------------------------------------------------------------------------
(* Proximity queries.  A geohash cell is the pair of its latitude and      *)
(* longitude band numbers.  Latitude bands of 5-character cells are        *)
(* 180 / 2^12 degrees high (4886.4 m at R = 6371 km) and each holds 8      *)
(* bands of 6-character cells; a 5-character cell holds 4 longitude bands  *)
(* of 6-character cells.  All points lie on the meridian of longitude      *)
(* band 0, the reference point on a band boundary.                         *)

MAX_RADIUS_KM == 5
GEOHASH5_CELL_DM == 48864
GEOHASH6_CELL_DM == 6108

(* Geohash.encode(lat, lng, precision) for a point of the meridian *)
GeohashEncode(lat, precision) ==
  IF precision = 5 THEN <<lat \div GEOHASH5_CELL_DM, 0>>
                   ELSE <<lat \div GEOHASH6_CELL_DM, 0>>

(* Geohash.neighbors(cell): n, ne, e, se, s, sw, w, nw *)
GeohashNeighbors(cell) ==
  << <<cell[1] + 1, cell[2]>>, <<cell[1] + 1, cell[2] + 1>>,
     <<cell[1], cell[2] + 1>>, <<cell[1] - 1, cell[2] + 1>>,
     <<cell[1] - 1, cell[2]>>, <<cell[1] - 1, cell[2] - 1>>,
     <<cell[1], cell[2] - 1>>, <<cell[1] + 1, cell[2] - 1>> >>

(* c.substring(0, 5) of a 6-character cell *)
Prefix5(cell) == <<cell[1] \div 8, cell[2] \div 4>>

Range(seq) == {seq[k] : k \in DOMAIN seq}

(* Query of GSI2 with GSI2PK = GEO#cell: the items stored under the cell *)
QueryCell(D, cell) == {m \in DOMAIN D : GeohashEncode(D[m].lat, 5) = cell}

(* The item a query maps a stored masjid to *)
GeoItem(D, m, lat) ==
  LET distanceDm == haversineDistance(lat, D[m].lat)
  IN [masjidId |-> m,
      distanceDm |-> distanceDm,
      distanceM |-> RoundM(distanceDm),
      checkinRadiusM |-> RadiusOrDefault(D[m]),
      canCheckin |-> LessEq(distanceDm, RadiusOrDefault(D[m]))]

(* The arrays Array.prototype.sort may leave: the items in ascending       *)
(* order of key, items of equal key in any order                           *)
SortedBy(items, key) ==
  {seq \in [1 .. Cardinality(items) -> items] :
     /\ \A j, k \in DOMAIN seq : j # k => seq[j] # seq[k]
     /\ \A j, k \in DOMAIN seq : j < k => seq[j][key] <= seq[k][key]}

getNearbyMasjids_NoCap(D, lat, radiusKm) ==
  LET centerGeohash == GeohashEncode(lat, 5)
      cellsToQuery == <<centerGeohash>> \o GeohashNeighbors(centerGeohash)
      allMasjids == UNION {QueryCell(D, cell) : cell \in Range(cellsToQuery)}
      mapped == {GeoItem(D, m, lat) : m \in allMasjids}
      kept == {it \in mapped : it.distanceDm <= radiusKm * 10000}
  IN SortedBy(kept, "distanceDm")

(* getNearbyMasjids: the result arrays the call may return *)
getNearbyMasjids(D, lat, radiusKm) ==
  LET effectiveRadius == Min(radiusKm, MAX_RADIUS_KM)
      centerGeohash == GeohashEncode(lat, 5)
      cellsToQuery == <<centerGeohash>> \o GeohashNeighbors(centerGeohash)
      allMasjids == UNION {QueryCell(D, cell) : cell \in Range(cellsToQuery)}
      mapped == {GeoItem(D, m, lat) : m \in allMasjids}
      kept == {it \in mapped : it.distanceDm <= effectiveRadius * 10000}
  IN SortedBy(kept, "distanceDm")

getCheckinEligibleMasjids_Rounded(D, lat) ==
  LET centerGeohash == GeohashEncode(lat, 6)
      cellsToQuery == <<centerGeohash>> \o GeohashNeighbors(centerGeohash)
      uniquePrefixes == {Prefix5(c) : c \in Range(cellsToQuery)}
      allMasjids == UNION {QueryCell(D, cell) : cell \in uniquePrefixes}
      mapped == {GeoItem(D, m, lat) : m \in allMasjids}
      kept == {it \in mapped : it.distanceM <= it.checkinRadiusM}
  IN SortedBy(kept, "distanceM")

getCheckinEligibleMasjids_CenterOnly(D, lat) ==
  LET centerGeohash == GeohashEncode(lat, 6)
      uniquePrefixes == {Prefix5(centerGeohash)}
      allMasjids == UNION {QueryCell(D, cell) : cell \in uniquePrefixes}
      mapped == {GeoItem(D, m, lat) : m \in allMasjids}
      kept == {it \in mapped : it.canCheckin}
  IN SortedBy(kept, "distanceM")

(* getCheckinEligibleMasjids: the result arrays the call may return *)
getCheckinEligibleMasjids(D, lat) ==
  LET centerGeohash == GeohashEncode(lat, 6)
      cellsToQuery == <<centerGeohash>> \o GeohashNeighbors(centerGeohash)
      uniquePrefixes == {Prefix5(c) : c \in Range(cellsToQuery)}
      allMasjids == UNION {QueryCell(D, cell) : cell \in uniquePrefixes}
      mapped == {GeoItem(D, m, lat) : m \in allMasjids}
      kept == {it \in mapped : it.canCheckin}
  IN SortedBy(kept, "distanceM")

(* The directories and the queries of the proximity specification *)
GeoLats == {0, 1504, 48900, 50000, 60000, 98363}
GeoRadii == {50, 5000, Undefined}
GeoPositions == {0, 500, 504, 48863}
GeoRadiusKm == {1, 5, 10}

GeoDirectories ==
  UNION {[ids -> [lat : GeoLats, checkinRadiusM : GeoRadii]] :
           ids \in SUBSET MasjidIds}

GeoResponse(op, lat, radiusKm, result) ==
  [op |-> op, userId |-> "", success |-> TRUE, message |-> "",
   checkIn |-> 0, lat |-> lat, radiusKm |-> radiusKm, result |-> result]

InitGeo ==
  /\ profiles = <<>>
  /\ visits = <<>>
  /\ achievements = <<>>
  /\ dailyStats = <<>>
  /\ directory \in GeoDirectories
  /\ now = 0
  /\ last = Event("init")
  /\ pc = [p \in Procs |-> "idle"]
  /\ loc = [p \in Procs |-> <<>>]

(* A call of getNearbyMasjids(lat, lng, radiusKm) *)
Nearby ==
  /\ \E lat \in GeoPositions, radiusKm \in GeoRadiusKm :
       \E result \in getNearbyMasjids(directory, lat, radiusKm) :
         last' = GeoResponse("nearby", lat, radiusKm, result)
  /\ UNCHANGED <<store, directory, now, pc, loc>>

(* A call of getCheckinEligibleMasjids(lat, lng) *)
Eligible ==
  /\ \E lat \in GeoPositions :
       \E result \in getCheckinEligibleMasjids(directory, lat) :
         last' = GeoResponse("eligible", lat, Null, result)
  /\ UNCHANGED <<store, directory, now, pc, loc>>

NextGeo == Nearby \/ Eligible

SpecGeo == InitGeo /\ [][NextGeo]_vars

----------------------------------------------------------------------------
(* performCheckin as a sequence of store reads and writes.  Each process   *)
(* is one request handler invocation; pc is its position, loc its locals   *)
(* and, once it has returned, its result value.                            *)

MsgDuplicateKey == "duplicate key value violates unique constraint"

Locals(userId, masjidId, lat, isFirstVisit, result) ==
  [userId |-> userId, masjidId |-> masjidId, lat |-> lat,
   isFirstVisit |-> isFirstVisit, result |-> result]

Goto(p, label) ==
  /\ pc' = [pc EXCEPT ![p] = label]
  /\ UNCHANGED <<loc, last>>

(* the handler returns: its locals are gone, its result value remains *)
Return(p, result) ==
  /\ pc' = [pc EXCEPT ![p] = "done"]
  /\ loc' = [loc EXCEPT ![p] = Locals(loc[p].userId, "", Null, FALSE, result)]
  /\ last' = result

(* the handler is entered *)
CheckinStart(p, userId, masjidId, lat) ==
  /\ pc[p] \in {"idle", "done"}
  /\ pc' = [pc EXCEPT ![p] = "ci_profile"]
  /\ loc' = [loc EXCEPT ![p] =
               Locals(userId, masjidId, lat, FALSE, Event("pending"))]
  /\ UNCHANGED <<store, directory, now, last>>

(* getOrCreateUserProfile: the existence read *)
CheckinReadProfile(p) ==
  /\ pc[p] = "ci_profile"
  /\ Goto(p, IF loc[p].userId \in DOMAIN profiles THEN "ci_active"
                                                  ELSE "ci_create")
  /\ UNCHANGED <<store, directory, now>>

InsertUserProfile_NoConstraint(P, userId) ==
  [ok |-> TRUE, table |-> getOrCreateUserProfile(P, userId)]

(* db.insert(userProfile).values(newProfile): user_id is unique, so the    *)
(* insert of a second row for the user throws and the table is unchanged   *)
InsertUserProfile(P, userId) ==
  IF userId \in DOMAIN P
  THEN [ok |-> FALSE, table |-> P]
  ELSE [ok |-> TRUE, table |-> getOrCreateUserProfile(P, userId)]

(* getOrCreateUserProfile: the insert; when it throws the request ends     *)
(* with an error                                                           *)
CheckinInsertProfile(p) ==
  LET inserted == InsertUserProfile(profiles, loc[p].userId)
  IN /\ pc[p] = "ci_create"
     /\ UNCHANGED <<visits, achievements, dailyStats, directory, now>>
     /\ profiles' = inserted.table
     /\ IF inserted.ok
        THEN Goto(p, "ci_active")
        ELSE Return(p, Response("checkin", loc[p].userId, FALSE,
                                MsgDuplicateKey, 0, Null, Null, Null, Null))

(* getActiveCheckin and the already-checked-in gate *)
CheckinGetActive(p) ==
  /\ pc[p] = "ci_active"
  /\ UNCHANGED <<store, directory, now>>
  /\ \E activeCheckin \in getActiveCheckin(visits, loc[p].userId) :
       IF CheckinGate(activeCheckin, NoItem, loc[p].lat) = MsgAlreadyCheckedIn
       THEN Return(p, Response("checkin", loc[p].userId, FALSE,
                               MsgAlreadyCheckedIn, 0, Null, Null, Null, Null))
       ELSE Goto(p, "ci_masjid")

(* getMasjidById, the not-found gate and the proximity gate *)
CheckinGetMasjid(p) ==
  LET masjid == getMasjidById(directory, loc[p].masjidId)
      gate == CheckinGate(0, masjid, loc[p].lat)
      distanceDm == haversineDistance(loc[p].lat, masjid.lat)
  IN /\ pc[p] = "ci_masjid"
     /\ UNCHANGED <<store, directory, now>>
     /\ IF gate = MsgMasjidNotFound
        THEN Return(p, Response("checkin", loc[p].userId, FALSE, gate, 0,
                                Null, Null, Null, Null))
        ELSE IF gate = MsgTooFar
        THEN Return(p, Response("checkin", loc[p].userId, FALSE, gate, 0,
                                Null, distanceDm, RoundM(distanceDm),
                                RadiusOrDefault(masjid)))
        ELSE Goto(p, "ci_count")

(* the count of previous visits to the masjid *)
CheckinCountPrevious(p) ==
  /\ pc[p] = "ci_count"
  /\ pc' = [pc EXCEPT ![p] = "ci_insert"]
  /\ loc' = [loc EXCEPT ![p] =
               [@ EXCEPT !.isFirstVisit =
                  previousVisits(visits, loc[p].userId, loc[p].masjidId) = 0]]
  /\ UNCHANGED <<store, directory, now, last>>

(* the insert of the check_in row: no constraint guards it *)
CheckinInsert(p) ==
  /\ pc[p] = "ci_insert"
  /\ Len(visits) < MaxVisits
  /\ visits' = Append(visits, NewCheckIn(loc[p].userId, loc[p].masjidId,
                                         loc[p].isFirstVisit))
  /\ Return(p, Response("checkin", loc[p].userId, TRUE, MsgCheckinOk,
                        Len(visits) + 1, Null, Null, Null, Null))
  /\ UNCHANGED <<profiles, achievements, dailyStats, directory, now>>

StartConc == \E p \in Procs, u \in Users, m \in MasjidIds, lat \in Positions :
               CheckinStart(p, u, m, lat)

ReadProfileConc == \E p \in Procs : CheckinReadProfile(p)

InsertProfileConc == \E p \in Procs : CheckinInsertProfile(p)

GetActiveConc == \E p \in Procs : CheckinGetActive(p)

GetMasjidConc == \E p \in Procs : CheckinGetMasjid(p)

CountPreviousConc == \E p \in Procs : CheckinCountPrevious(p)

InsertConc == \E p \in Procs : CheckinInsert(p)

NextConc ==
  \/ StartConc
  \/ ReadProfileConc
  \/ InsertProfileConc
  \/ GetActiveConc
  \/ GetMasjidConc
  \/ CountPreviousConc
  \/ InsertConc

SpecConc == Init /\ [][NextConc]_vars

----------------------------------------------------------------------------
(* performCheckout as a sequence of store reads and writes, for the        *)
(* requests of one user.  Check-ins run to completion between the steps.   *)

OutUser == "u1"

OutLocals(userId, lat, profile, activeId, active, current, result) ==
  [userId |-> userId, lat |-> lat, profile |-> profile,
   activeId |-> activeId, active |-> active, current |-> current,
   result |-> result]

(* the handler returns: its locals are gone, its result value remains *)
ReturnOut(p, result) ==
  /\ pc' = [pc EXCEPT ![p] = "done"]
  /\ loc' = [loc EXCEPT ![p] =
               OutLocals(loc[p].userId, Null, NoItem, 0, NoItem, NoItem,
                         result)]
  /\ last' = result

(* the handler is entered; each process serves one request *)
CheckoutStart(p, userId, lat) ==
  /\ pc[p] = "idle"
  /\ pc' = [pc EXCEPT ![p] = "co_profile"]
  /\ loc' = [loc EXCEPT ![p] =
               OutLocals(userId, lat, NoItem, 0, NoItem, NoItem,
                         Event("pending"))]
  /\ UNCHANGED <<store, directory, now, last>>

(* the profile read; profile[0] is kept for the whole request *)
CheckoutReadProfile(p) ==
  /\ pc[p] = "co_profile"
  /\ UNCHANGED <<store, directory, now>>
  /\ IF loc[p].userId \notin DOMAIN profiles
     THEN ReturnOut(p, Response("checkout", loc[p].userId, FALSE,
                                MsgNoProfile, 0, Null, Null, Null, Null))
     ELSE /\ pc' = [pc EXCEPT ![p] = "co_active"]
          /\ loc' = [loc EXCEPT ![p] =
                       [@ EXCEPT !.profile = profiles[loc[p].userId]]]
          /\ last' = last

(* getActiveCheckin; the row read is kept for the whole request *)
CheckoutGetActive(p) ==
  /\ pc[p] = "co_active"
  /\ UNCHANGED <<store, directory, now>>
  /\ \E activeId \in getActiveCheckin(visits, loc[p].userId) :
       IF activeId = 0
       THEN ReturnOut(p, Response("checkout", loc[p].userId, FALSE,
                                  MsgNoActive, 0, Null, Null, Null, Null))
       ELSE /\ pc' = [pc EXCEPT ![p] = "co_update"]
            /\ loc' = [loc EXCEPT ![p] =
                         [@ EXCEPT !.activeId = activeId,
                                   !.active = visits[activeId]]]
            /\ last' = last

CheckoutUpdateVisit_AfterStats(p) ==
  LET active == loc[p].active
      masjid == getMasjidById(directory, active.masjidId)
      updated == CheckedOut(active, masjid, loc[p].lat, now)
  IN /\ pc[p] = "co_update"
     /\ pc' = [pc EXCEPT ![p] = "co_stats_read"]
     /\ loc' = [loc EXCEPT ![p] = [@ EXCEPT !.active = updated]]
     /\ UNCHANGED <<store, directory, now, last>>

(* getMasjidById, the scoring, and the update of the check_in row whose id *)
(* is active.id; the update has no condition on the row's status           *)
CheckoutUpdateVisit(p) ==
  LET active == loc[p].active
      masjid == getMasjidById(directory, active.masjidId)
      updated == CheckedOut(active, masjid, loc[p].lat, now)
  IN /\ pc[p] = "co_update"
     /\ visits' = [visits EXCEPT ![loc[p].activeId] = updated]
     /\ pc' = [pc EXCEPT ![p] = "co_stats_read"]
     /\ loc' = [loc EXCEPT ![p] = [@ EXCEPT !.active = updated]]
     /\ UNCHANGED <<profiles, achievements, dailyStats, directory, now, last>>

(* updateUserStats: the select *)
CheckoutReadStats(p) ==
  /\ pc[p] = "co_stats_read"
  /\ pc' = [pc EXCEPT ![p] = "co_stats_write"]
  /\ loc' = [loc EXCEPT ![p] = [@ EXCEPT !.current = profiles[loc[p].userId]]]
  /\ UNCHANGED <<store, directory, now, last>>

(* updateUserStats: the update, which sets the columns computed from the   *)
(* row selected before                                                     *)
CheckoutWriteStats(p) ==
  LET upd == StatsUpdate(loc[p].current, loc[p].active.actualPointsEarned,
                         loc[p].active.isFirstVisitToMasjid, now)
  IN /\ pc[p] = "co_stats_write"
     /\ profiles' = [profiles EXCEPT ![loc[p].userId] =
                       [@ EXCEPT !.totalPoints = upd.totalPoints,
                                 !.monthlyPoints = upd.monthlyPoints,
                                 !.uniqueMasjidsVisited =
                                     upd.uniqueMasjidsVisited,
                                 !.totalCheckIns = upd.totalCheckIns,
                                 !.currentStreak = upd.currentStreak,
                                 !.longestStreak = upd.longestStreak,
                                 !.lastVisitDate = upd.lastVisitDate]]
     /\ pc' = [pc EXCEPT ![p] = "co_achievements"]
     /\ loc' = [loc EXCEPT ![p] = [@ EXCEPT !.current = NoItem]]
     /\ UNCHANGED <<visits, achievements, dailyStats, directory, now, last>>

(* newUniqueMasjids: the count derived from profile[0], the row read at    *)
(* the start of the request                                                *)
newUniqueMasjids(p) ==
  IF loc[p].active.isFirstVisitToMasjid
  THEN loc[p].profile.uniqueMasjidsVisited + 1
  ELSE loc[p].profile.uniqueMasjidsVisited

(* updateAchievementProgress(profileId, newUniqueMasjids) *)
CheckoutAchievements(p) ==
  LET S == updateAchievementProgress(achievements, profiles, loc[p].userId,
                                     newUniqueMasjids(p), now)
  IN /\ pc[p] = "co_achievements"
     /\ profiles' = S.prof
     /\ achievements' = S.ach
     /\ pc' = [pc EXCEPT ![p] = "co_daily"]
     /\ UNCHANGED <<visits, dailyStats, directory, now, last, loc>>

(* updateDailyMasjidStats and the return *)
CheckoutDailyStats(p) ==
  /\ pc[p] = "co_daily"
  /\ dailyStats' = updateDailyMasjidStats(dailyStats, loc[p].active.masjidId,
                                          loc[p].active.actualPointsEarned,
                                          now)
  /\ ReturnOut(p, Response("checkout", loc[p].userId, TRUE,
                           IF loc[p].active.status = "completed"
                           THEN MsgCheckoutFull ELSE MsgCheckoutPartial,
                           loc[p].activeId, loc[p].active.actualPointsEarned,
                           Null, Null, Null))
  /\ UNCHANGED <<profiles, visits, achievements, directory, now>>

MsgInternalError == "Internal Server Error"

CheckoutFail_Rollback(p) ==
  /\ pc[p] \in {"co_stats_read", "co_stats_write", "co_achievements",
                "co_daily"}
  /\ visits' = [visits EXCEPT ![loc[p].activeId] =
                  [@ EXCEPT !.status = "checked_in"]]
  /\ ReturnOut(p, Response("checkout", loc[p].userId, FALSE,
                           MsgInternalError, loc[p].activeId, Null, Null,
                           Null, Null))
  /\ UNCHANGED <<profiles, achievements, dailyStats, directory, now>>

(* updateUserStats, updateAchievementProgress or updateDailyMasjidStats    *)
(* throws: nothing catches the error and nothing undoes the writes made,   *)
(* the request ends with an error response                                 *)
CheckoutFail(p) ==
  /\ pc[p] \in {"co_stats_read", "co_stats_write", "co_achievements",
                "co_daily"}
  /\ ReturnOut(p, Response("checkout", loc[p].userId, FALSE,
                           MsgInternalError, loc[p].activeId, Null, Null,
                           Null, Null))
  /\ UNCHANGED <<store, directory, now>>

CheckinOut == \E m \in MasjidIds, lat \in Positions :
                performCheckin(OutUser, m, lat) /\ Len(visits') <= MaxVisits

StartOut == \E p \in Procs, lat \in Positions : CheckoutStart(p, OutUser, lat)

ReadProfileOut == \E p \in Procs : CheckoutReadProfile(p)

GetActiveOut == \E p \in Procs : CheckoutGetActive(p)

UpdateVisitOut == \E p \in Procs : CheckoutUpdateVisit(p)

ReadStatsOut == \E p \in Procs : CheckoutReadStats(p)

WriteStatsOut == \E p \in Procs : CheckoutWriteStats(p)

AchievementsOut == \E p \in Procs : CheckoutAchievements(p)

DailyStatsOut == \E p \in Procs : CheckoutDailyStats(p)

FailOut == \E p \in Procs : CheckoutFail(p)

NextOut ==
  \/ CheckinOut
  \/ StartOut
  \/ ReadProfileOut
  \/ GetActiveOut
  \/ UpdateVisitOut
  \/ ReadStatsOut
  \/ WriteStatsOut
  \/ AchievementsOut
  \/ DailyStatsOut
  \/ FailOut

SpecOut == Init /\ [][NextOut]_vars

----------------------------------------------------------------------------
(* Checkouts of two users at one masjid, with updateDailyMasjidStats as    *)
(* the select and the write it consists of.  Check-ins run to completion   *)
(* between the steps.                                                      *)

(* updateDailyMasjidStats: the select of the row of (masjidId, today) *)
CheckoutDailyRead(p) ==
  LET key == <<loc[p].active.masjidId, now>>
      existing == IF key \in DOMAIN dailyStats THEN dailyStats[key]
                                               ELSE NoItem
  IN /\ pc[p] = "co_daily"
     /\ pc' = [pc EXCEPT ![p] = "co_daily_write"]
     /\ loc' = [loc EXCEPT ![p] = [existing |-> existing] @@ loc[p]]
     /\ UNCHANGED <<store, directory, now, last>>

(* updateDailyMasjidStats: the update of the selected row to the values    *)
(* computed from it, or the insert, which throws when the row of           *)
(* (masjidId, date) exists by now; then the return                         *)
CheckoutDailyWrite(p) ==
  LET key == <<loc[p].active.masjidId, now>>
      existing == loc[p].existing
      pointsAwarded == loc[p].active.actualPointsEarned
      ok == Response("checkout", loc[p].userId, TRUE,
                     IF loc[p].active.status = "completed"
                     THEN MsgCheckoutFull ELSE MsgCheckoutPartial,
                     loc[p].activeId, pointsAwarded, Null, Null, Null)
  IN /\ pc[p] = "co_daily_write"
     /\ UNCHANGED <<profiles, visits, achievements, directory, now>>
     /\ IF existing # NoItem
        THEN /\ dailyStats' =
                  [dailyStats EXCEPT ![key] =
                     [@ EXCEPT !.visitorCount = existing.visitorCount + 1,
                               !.totalPointsAwarded =
                                   existing.totalPointsAwarded + pointsAwarded]]
             /\ ReturnOut(p, ok)
        ELSE IF key \in DOMAIN dailyStats
        THEN /\ UNCHANGED dailyStats
             /\ ReturnOut(p, Response("checkout", loc[p].userId, FALSE,
                                      MsgDuplicateKey, loc[p].activeId, Null,
                                      Null, Null, Null))
        ELSE /\ dailyStats' = updateDailyMasjidStats(dailyStats, key[1],
                                                    pointsAwarded, now)
             /\ ReturnOut(p, ok)

CheckinDaily == \E u \in Users :
                  /\ performCheckin(u, JobsMasjid, JobsPosition)
                  /\ Len(visits') <= MaxVisits

StartDaily == \E p \in Procs, u \in Users : CheckoutStart(p, u, JobsPosition)

DailyReadDaily == \E p \in Procs : CheckoutDailyRead(p)

DailyWriteDaily == \E p \in Procs : CheckoutDailyWrite(p)

NextDaily ==
  \/ CheckinDaily
  \/ StartDaily
  \/ ReadProfileOut
  \/ GetActiveOut
  \/ UpdateVisitOut
  \/ ReadStatsOut
  \/ WriteStatsOut
  \/ AchievementsOut
  \/ DailyReadDaily
  \/ DailyWriteDaily

SpecDaily == Init /\ [][NextDaily]_vars

----------------------------------------------------------------------------
(* Vocabulary of the properties *)

OpenVisits(V, u) ==
  {i \in DOMAIN V : V[i].userProfileId = u /\ V[i].status = "checked_in"}

Terminal(v) == v.status \in {"completed", "incomplete"}

(* The admission radius of a directory record, in decimetres *)
AdmissionRadiusDm(m) ==
  IF directory[m].checkinRadiusM = Undefined
  THEN 1000
  ELSE directory[m].checkinRadiusM * 10

(* The counters of a user's profile; a user without profile has none yet *)
Counters(P, u) == IF u \in DOMAIN P THEN P[u] ELSE NewUserProfile

(* The achievement bonus points of the records of u that A has unlocked *)
RECURSIVE BonusFrom(_, _, _)
BonusFrom(A, u, k) ==
  IF k > Len(AchievementDefinitions) THEN 0
  ELSE (IF /\ <<u, AchievementDefinitions[k].id>> \in DOMAIN A
           /\ A[<<u, AchievementDefinitions[k].id>>].isUnlocked
        THEN AchievementDefinitions[k].bonusPoints ELSE 0)
       + BonusFrom(A, u, k + 1)

BonusSum(A, u) == BonusFrom(A, u, 1)

AchievementIds == {AchievementDefinitions[k].id :
                     k \in DOMAIN AchievementDefinitions}

(* The achievements of u whose record is unlocked in A *)
Unlocked(A, u) ==
  {a \in AchievementIds : <<u, a>> \in DOMAIN A /\ A[<<u, a>>].isUnlocked}

(* The points a step adds to u's profile by the Visit it scores *)
ScoredInStep(u) ==
  IF last'.op = "checkout" /\ last'.success /\ last'.userId = u
  THEN visits'[last'.checkIn].actualPointsEarned
  ELSE 0

(* C1: with requests served one at a time, every user has at most one      *)
(* Visit with status checked_in.                                           *)
C1_AtMostOneOpen ==
  \A u \in Users : Cardinality(OpenVisits(visits, u)) <= 1

C1_Witness ==
  \E u \in Users :
    /\ Cardinality(OpenVisits(visits, u)) = 1
    /\ \E i \in DOMAIN visits :
         visits[i].userProfileId = u /\ Terminal(visits[i])

(* C2: when two performCheckin calls of the same user interleave at their  *)
(* store reads and writes, at most one of them succeeds and the user never *)
(* has two open Visits.                                                    *)
C2_ConcurrentCheckin ==
  /\ \A u \in Users : Cardinality(OpenVisits(visits, u)) <= 1
  /\ \A p, q \in Procs :
       (/\ p # q
        /\ pc[p] = "done" /\ pc[q] = "done"
        /\ loc[p].userId = loc[q].userId
        /\ loc[p].result.success /\ loc[q].result.success)
         => \/ visits[loc[p].result.checkIn].status # "checked_in"
            \/ visits[loc[q].result.checkIn].status # "checked_in"

(* C3: a check-in by a user with an open Visit is refused as already       *)
(* checked in whatever the masjid id and the coordinates are, and no       *)
(* Visit is created or changed.                                            *)
C3_AlreadyCheckedIn ==
  [][(last'.op = "checkin" /\ OpenVisits(visits, last'.userId) # {})
       => /\ last'.message = MsgAlreadyCheckedIn
          /\ ~last'.success
          /\ visits' = visits]_vars

C3_Witness ==
  /\ last.op = "checkin"
  /\ last.message = MsgAlreadyCheckedIn
  /\ OpenVisits(visits, last.userId) # {}

(* C4: for a user without open Visit and a masjid that resolves, the       *)
(* check-in passes the proximity gate exactly when the distance is at most *)
(* the masjid's admission radius (100 m when it has none).                 *)
C4_ProximityGate ==
  [][(last'.op = "checkin" /\ OpenVisits(visits, last'.userId) = {})
       => \A m \in DOMAIN directory, lat \in Positions :
            performCheckin(last'.userId, m, lat)
              => LET d == Abs(lat - directory[m].lat)
                 IN /\ d <= AdmissionRadiusDm(m) => last'.success
                    /\ d > AdmissionRadiusDm(m)
                         => ~last'.success /\ last'.message = MsgTooFar]_vars

C4_Witness ==
  /\ last.op = "checkin"
  /\ last.success
  /\ visits[last.checkIn].masjidId \in DOMAIN directory
  /\ last.distanceDm = AdmissionRadiusDm(visits[last.checkIn].masjidId)

(* C5: a check-in that fails as masjid-not-found or too-far creates no     *)
(* Visit, changes no Visit and changes no profile counter.                 *)
C5_FailedCheckinFrame ==
  [][(/\ last'.op = "checkin"
      /\ last'.message \in {MsgMasjidNotFound, MsgTooFar})
       => /\ ~last'.success
          /\ visits' = visits
          /\ \A w \in Users : Counters(profiles', w) = Counters(profiles, w)
          /\ achievements' = achievements
          /\ dailyStats' = dailyStats]_vars

C5_Witness ==
  /\ last.op = "checkin"
  /\ last.message \in {MsgMasjidNotFound, MsgTooFar}
  /\ last.userId \in DOMAIN profiles
  /\ profiles[last.userId].totalPoints > 0

C7_CheckoutRefused ==
  [][(last'.op = "checkout" /\ OpenVisits(visits, last'.userId) = {})
       => /\ ~last'.success
          /\ last'.message = (IF last'.userId \in DOMAIN profiles
                              THEN MsgNoActive ELSE MsgNoProfile)
          /\ store' = store]_vars

C7_Witness ==
  /\ last.op = "checkout"
  /\ last.message = MsgNoActive
  /\ \E i \in DOMAIN visits : visits[i].userProfileId = last.userId
  /\ \E u \in Users : u \notin DOMAIN profiles

(* C8: a successful check-out moves the user's open Visit to completed     *)
(* with basePoints 10 and checkoutInProximity true when the exit distance  *)
(* to the Visit's masjid is at most its admission radius, and otherwise to *)
(* incomplete with basePoints 5 and checkoutInProximity false.             *)
C8_CheckoutStatus ==
  [][(last'.op = "checkout" /\ last'.success)
       => \A lat \in Positions :
            performCheckout(last'.userId, lat)
              => LET i == last'.checkIn
                     m == visits[i].masjidId
                     inRange == /\ m \in DOMAIN directory
                                /\ Abs(lat - directory[m].lat)
                                     <= AdmissionRadiusDm(m)
                 IN /\ i \in OpenVisits(visits, last'.userId)
                    /\ \A j \in DOMAIN visits \ {i} : visits'[j] = visits[j]
                    /\ Len(visits') = Len(visits)
                    /\ inRange
                         => /\ visits'[i].status = "completed"
                            /\ visits'[i].basePoints = 10
                            /\ visits'[i].checkoutInProximity = "true"
                    /\ ~inRange
                         => /\ visits'[i].status = "incomplete"
                            /\ visits'[i].basePoints = 5
                            /\ visits'[i].checkoutInProximity = "false"]_vars

C8_Witness ==
  /\ last.op = "checkout"
  /\ last.success
  /\ LET v == visits[last.checkIn]
     IN /\ v.status = "completed"
        /\ v.masjidId \in DOMAIN directory
        /\ Abs(v.checkOutLat - directory[v.masjidId].lat)
             = AdmissionRadiusDm(v.masjidId)

C10_CheckoutWithoutMasjid ==
  [][(/\ last'.op = "checkout"
      /\ last'.userId \in DOMAIN profiles
      /\ \E i \in OpenVisits(visits, last'.userId) :
           visits[i].masjidId \notin DOMAIN directory)
       => LET u == last'.userId
              i == last'.checkIn
              key == <<visits[i].masjidId, now>>
          IN /\ last'.success
             /\ i \in OpenVisits(visits, u)
             /\ Terminal(visits'[i])
             /\ profiles'[u].totalCheckIns = profiles[u].totalCheckIns + 1
             /\ profiles'[u].totalPoints >=
                  profiles[u].totalPoints + visits'[i].actualPointsEarned
             /\ profiles'[u].lastVisitDate = now
             /\ \A a \in {"explorer_1", "explorer_2"} :
                  /\ <<u, a>> \in DOMAIN achievements'
                  /\ \/ achievements'[<<u, a>>].isUnlocked
                     \/ achievements'[<<u, a>>].currentProgress =
                          profiles'[u].uniqueMasjidsVisited
             /\ key \in DOMAIN dailyStats'
             /\ dailyStats'[key].visitorCount =
                  (IF key \in DOMAIN dailyStats
                   THEN dailyStats[key].visitorCount + 1 ELSE 1)]_vars

C10_Witness ==
  /\ last.op = "checkout"
  /\ last.success
  /\ visits[last.checkIn].masjidId \notin DOMAIN directory
  /\ Terminal(visits[last.checkIn])
  /\ visits[last.checkIn].checkOutAt = now

(* C11: once a Visit is completed or incomplete, no later check-in or      *)
(* check-out step, in any interleaving of the requests, changes the row.   *)
C11_TerminalImmutable ==
  [][\A i \in DOMAIN visits :
       Terminal(visits[i]) => visits'[i] = visits[i]]_vars

(* C12: every successful check-out, completed or incomplete, adds the      *)
(* Visit's actualPointsEarned to the profile's totalPoints and             *)
(* monthlyPoints and 1 to totalCheckIns; the only other points added in    *)
(* the request are the bonuses of the achievements it unlocks.             *)
C12_CheckoutAddsAward ==
  [][(last'.op = "checkout" /\ last'.success)
       => LET u == last'.userId
              i == last'.checkIn
              earned == visits'[i].actualPointsEarned
              bonus == BonusSum(achievements', u) - BonusSum(achievements, u)
              stats == updateUserStats(profiles, u, earned,
                                       visits[i].isFirstVisitToMasjid, now)
          IN /\ Terminal(visits'[i])
             /\ stats[u].totalPoints = profiles[u].totalPoints + earned
             /\ stats[u].monthlyPoints = profiles[u].monthlyPoints + earned
             /\ profiles'[u].totalPoints =
                  profiles[u].totalPoints + earned + bonus
             /\ profiles'[u].monthlyPoints =
                  profiles[u].monthlyPoints + earned + bonus
             /\ profiles'[u].totalCheckIns = profiles[u].totalCheckIns + 1]_vars

C12_Witness ==
  /\ last.op = "checkout"
  /\ last.success
  /\ visits[last.checkIn].status = "incomplete"
  /\ last.pointsEarned = 5
  /\ profiles[last.userId].totalCheckIns = 2

(* C13: a successful check-out adds 1 to uniqueMasjidsVisited when the     *)
(* Visit's first-visit flag was set at check-in and leaves it unchanged    *)
(* when it was not.                                                        *)
C13_UniqueCount ==
  [][(last'.op = "checkout" /\ last'.success)
       => LET u == last'.userId
              i == last'.checkIn
          IN profiles'[u].uniqueMasjidsVisited =
               profiles[u].uniqueMasjidsVisited
                 + (IF visits[i].isFirstVisitToMasjid THEN 1 ELSE 0)]_vars

C13_Witness ==
  /\ last.op = "checkout"
  /\ last.success
  /\ ~visits[last.checkIn].isFirstVisitToMasjid
  /\ profiles[last.userId].uniqueMasjidsVisited = 1
  /\ profiles[last.userId].totalCheckIns = 2

(* C14: at a check-out the streak follows the number of days between       *)
(* lastVisitDate and the check-out day: no previous visit gives 1; one day *)
(* gives streak + 1 and longestStreak = max(streak, longestStreak); the    *)
(* same day leaves the streak; more than one day resets it to 1; then      *)
(* lastVisitDate is the check-out time.                                    *)
C14_Streak ==
  [][(last'.op = "checkout" /\ last'.success)
       => LET old == profiles[last'.userId]
              new == profiles'[last'.userId]
              gap == now - old.lastVisitDate
          IN /\ old.lastVisitDate = Null
                  => new.currentStreak = 1 /\ new.longestStreak = 1
             /\ (old.lastVisitDate # Null /\ gap = 1)
                  => /\ new.currentStreak = old.currentStreak + 1
                     /\ new.longestStreak =
                          Max(new.currentStreak, old.longestStreak)
             /\ (old.lastVisitDate # Null /\ gap = 0)
                  => new.currentStreak = old.currentStreak
             /\ (old.lastVisitDate # Null /\ gap > 1)
                  => new.currentStreak = 1
             /\ new.lastVisitDate = now]_vars

C14_Witness ==
  /\ last.op = "checkout"
  /\ last.success
  /\ profiles[last.userId].currentStreak = 1
  /\ profiles[last.userId].longestStreak = 2
  /\ profiles[last.userId].lastVisitDate = now
  /\ profiles[last.userId].totalCheckIns = 3

(* C15 as stated: over check-ins, check-outs, achievement evaluations and  *)
(* the scheduled jobs no profile counter other than the monthly ones ever  *)
(* decreases, the current streak included.                                 *)
C15_AllCountersMonotone ==
  [][\A u \in DOMAIN profiles :
       /\ profiles'[u].totalPoints >= profiles[u].totalPoints
       /\ profiles'[u].uniqueMasjidsVisited >= profiles[u].uniqueMasjidsVisited
       /\ profiles'[u].totalCheckIns >= profiles[u].totalCheckIns
       /\ profiles'[u].currentStreak >= profiles[u].currentStreak
       /\ profiles'[u].longestStreak >= profiles[u].longestStreak
       /\ profiles'[u].achievementCount >= profiles[u].achievementCount]_vars

(* C15 amended: total points, unique masjids, total check-ins, longest     *)
(* streak and achievement count never decrease and a profile is never      *)
(* removed; the current streak decreases only at a check-out more than one *)
(* day after lastVisitDate, where it becomes 1.                            *)
C15_CountersMonotone ==
  [][/\ DOMAIN profiles \subseteq DOMAIN profiles'
     /\ \A u \in DOMAIN profiles :
          /\ profiles'[u].totalPoints >= profiles[u].totalPoints
          /\ profiles'[u].uniqueMasjidsVisited >=
               profiles[u].uniqueMasjidsVisited
          /\ profiles'[u].totalCheckIns >= profiles[u].totalCheckIns
          /\ profiles'[u].longestStreak >= profiles[u].longestStreak
          /\ profiles'[u].achievementCount >= profiles[u].achievementCount
          /\ profiles'[u].currentStreak < profiles[u].currentStreak
               => /\ last'.op = "checkout"
                  /\ last'.success
                  /\ last'.userId = u
                  /\ now - profiles[u].lastVisitDate > 1
                  /\ profiles'[u].currentStreak = 1]_vars

C15_Witness ==
  \E u \in DOMAIN profiles :
    /\ profiles[u].longestStreak = 2
    /\ profiles[u].currentStreak = 1
    /\ profiles[u].totalCheckIns = 3
    /\ profiles[u].achievementCount = 2
    /\ profiles[u].monthlyPoints < profiles[u].totalPoints
    /\ profiles[u].monthlyRank = Null
    /\ profiles[u].globalRank = 1

(* C16: over any sequence of check-outs a progress record that is         *)
(* unlocked stays unlocked with the same unlock time, and the bonusPoints  *)
(* of an achievement are added to the profile, and achievementCount        *)
(* incremented, exactly in the step in which its record becomes unlocked.  *)
C16_UnlockOnce ==
  [][/\ DOMAIN achievements \subseteq DOMAIN achievements'
     /\ \A key \in DOMAIN achievements :
          achievements[key].isUnlocked
            => /\ achievements'[key].isUnlocked
               /\ achievements'[key].unlockedAt = achievements[key].unlockedAt
     /\ \A u \in DOMAIN profiles' :
          /\ profiles'[u].achievementCount =
               Counters(profiles, u).achievementCount
                 + Cardinality(Unlocked(achievements', u)
                                 \ Unlocked(achievements, u))
          /\ profiles'[u].totalPoints =
               Counters(profiles, u).totalPoints + ScoredInStep(u)
                 + BonusSum(achievements', u) - BonusSum(achievements, u)]_vars

C16_Witness ==
  \E u \in DOMAIN profiles :
    /\ Unlocked(achievements, u) = {"explorer_1", "explorer_2"}
    /\ achievements[<<u, "explorer_1">>].unlockedAt = 0
    /\ achievements[<<u, "explorer_2">>].unlockedAt = 1
    /\ profiles[u].achievementCount = 2

(* C17: an evaluation for a profile whose record for an achievement is     *)
(* already unlocked leaves that record as it is and adds no points and no  *)
(* achievementCount for it, whatever the uniqueMasjidsVisited argument:    *)
(* the evaluation adds exactly the bonuses of the records it unlocks.      *)
C17_UnlockedUntouched ==
  [][last'.op = "evaluate"
       => LET u == last'.userId
              newly == Unlocked(achievements', u) \ Unlocked(achievements, u)
          IN /\ \A a \in Unlocked(achievements, u) :
                  achievements'[<<u, a>>] = achievements[<<u, a>>]
             /\ profiles'[u].totalPoints =
                  profiles[u].totalPoints
                    + BonusSum(achievements', u) - BonusSum(achievements, u)
             /\ profiles'[u].monthlyPoints - profiles[u].monthlyPoints =
                  profiles'[u].totalPoints - profiles[u].totalPoints
             /\ profiles'[u].achievementCount =
                  profiles[u].achievementCount + Cardinality(newly)]_vars

C17_Witness ==
  /\ last.op = "evaluate"
  /\ last.checkIn = 0
  /\ now = 1
  /\ Unlocked(achievements, last.userId) = {"explorer_1"}
  /\ achievements[<<last.userId, "explorer_1">>].unlockedAt = 0
  /\ achievements[<<last.userId, "explorer_1">>].currentProgress = 1
  /\ achievements[<<last.userId, "explorer_2">>].currentProgress = 0
  /\ profiles[last.userId].achievementCount = 1

C19_NearbyComplete ==
  last.op = "nearby"
    => \A m \in DOMAIN directory :
         Abs(directory[m].lat - last.lat) <= Min(last.radiusKm, 5) * 10000
           => \E k \in DOMAIN last.result : last.result[k].masjidId = m

(* C20: getCheckinEligibleMasjids returns only stored masjids whose        *)
(* distance is at most their own admission radius (100 m when they have    *)
(* none), in ascending order of the distance in whole metres, and each of  *)
(* them passes the proximity gate of performCheckin from the same point.   *)
C20_EligibleAdmitted ==
  last.op = "eligible"
    => LET result == last.result
       IN /\ \A k \in DOMAIN result :
               LET m == result[k].masjidId
               IN /\ m \in DOMAIN directory
                  /\ Abs(directory[m].lat - last.lat) <= AdmissionRadiusDm(m)
                  /\ result[k].distanceM =
                       RoundM(Abs(directory[m].lat - last.lat))
                  /\ CheckinGate(0, getMasjidById(directory, m), last.lat)
                       = MsgCheckinOk
          /\ \A j, k \in DOMAIN result :
               j < k => /\ result[j].distanceM <= result[k].distanceM
                        /\ result[j].masjidId # result[k].masjidId

C20_Witness ==
  /\ last.op = "eligible"
  /\ last.lat = 504
  /\ Len(last.result) = 1
  /\ last.result[1].distanceDm = 1000
  /\ directory[last.result[1].masjidId].checkinRadiusM = Undefined
  /\ \E m \in DOMAIN directory :
       directory[m].lat = 0 /\ directory[m].checkinRadiusM = 50

(* The masjids the 5-character cell of the query point and its 8           *)
(* neighbours hold within their admission radius                           *)
CoarseEligible(D, lat) ==
  LET centerGeohash == GeohashEncode(lat, 5)
      cellsToQuery == <<centerGeohash>> \o GeohashNeighbors(centerGeohash)
      allMasjids == UNION {QueryCell(D, cell) : cell \in Range(cellsToQuery)}
  IN {m \in allMasjids : GeoItem(D, m, lat).canCheckin}

ResultIds(result) == {result[k].masjidId : k \in DOMAIN result}

(* C21 as stated: getCheckinEligibleMasjids returns the same result set as *)
(* fetching the 5-character cell of the query point and its 8 neighbours   *)
(* under the same admission filter.                                        *)
C21_SameAsCoarse ==
  last.op = "eligible" =>
    ResultIds(last.result) = CoarseEligible(directory, last.lat)

(* C21 as amended: the result set of getCheckinEligibleMasjids is a subset *)
(* of the 9-cell result set, and every masjid it leaves out has an         *)
(* admission radius larger than the side of a 6-character cell; with no    *)
(* such radius in the directory the two result sets are equal.             *)
C21_SubsetOfCoarse ==
  last.op = "eligible" =>
    LET fine == ResultIds(last.result)
        coarse == CoarseEligible(directory, last.lat)
    IN /\ fine \subseteq coarse
       /\ \A m \in coarse \ fine :
            RadiusOrDefault(directory[m]) * 10 > GEOHASH6_CELL_DM
       /\ (\A m \in DOMAIN directory :
             RadiusOrDefault(directory[m]) * 10 <= GEOHASH6_CELL_DM)
            => fine = coarse

(* An eligible query next to a cell border returns a masjid of the         *)
(* neighbouring 5-character cell                                           *)
C21_Witness ==
  /\ last.op = "eligible"
  /\ \E k \in DOMAIN last.result :
       /\ GeohashEncode(directory[last.result[k].masjidId].lat, 5)
            # GeohashEncode(last.lat, 5)
       /\ last.result[k].checkinRadiusM * 10 <= GEOHASH6_CELL_DM
  /\ \A m \in DOMAIN directory :
       RadiusOrDefault(directory[m]) * 10 <= GEOHASH6_CELL_DM

(* C22: there is at most one UserProfile per user id: the insert of        *)
(* getOrCreateUserProfile adds a row only for a user that has none, and    *)
(* when two calls for an unseen user interleave between the existence read *)
(* and the insert, the later insert fails and leaves the table unchanged.  *)
C22_OneProfilePerUser ==
  [][\A p \in Procs :
       (pc[p] = "ci_create" /\ pc'[p] # "ci_create") =>
         IF loc[p].userId \in DOMAIN profiles
         THEN /\ profiles' = profiles
              /\ pc'[p] = "done"
              /\ loc'[p].result.message = MsgDuplicateKey
         ELSE /\ DOMAIN profiles' = DOMAIN profiles \cup {loc[p].userId}
              /\ \A u \in DOMAIN profiles : profiles'[u] = profiles[u]
              /\ pc'[p] = "ci_active"]_vars

(* Two calls interleaved: one inserted the profile, the other's insert     *)
(* failed                                                                  *)
C22_Witness ==
  \E p, q \in Procs :
    /\ p # q
    /\ pc[p] = "done"
    /\ loc[p].result.message = MsgDuplicateKey
    /\ loc[p].userId \in DOMAIN profiles
    /\ loc[q].userId = loc[p].userId
    /\ pc[q] \notin {"idle", "ci_profile", "ci_create"}

(* C23: for a user with a profile getUserRank returns one more than the    *)
(* number of profiles with strictly greater totalPoints as globalRank and  *)
(* one more than the number with strictly greater monthlyPoints as         *)
(* monthlyRank, whatever the cached rank fields hold; users with equal     *)
(* points get equal ranks.                                                 *)
C23_UserRank ==
  (last.op = "rank" /\ last.userId \in DOMAIN profiles) =>
    LET u == last.userId
    IN /\ last.globalRank =
            Cardinality({w \in DOMAIN profiles :
               profiles[w].totalPoints > profiles[u].totalPoints}) + 1
       /\ last.monthlyRank =
            Cardinality({w \in DOMAIN profiles :
               profiles[w].monthlyPoints > profiles[u].monthlyPoints}) + 1
       /\ \A w \in DOMAIN profiles :
            /\ profiles[w].totalPoints = profiles[u].totalPoints
                 => getUserRank(profiles, w).globalRank = last.globalRank
            /\ profiles[w].monthlyPoints = profiles[u].monthlyPoints
                 => getUserRank(profiles, w).monthlyRank = last.monthlyRank

(* Two users tied on points: the one whose cached global rank is 2 is      *)
(* answered rank 1                                                         *)
C23_Witness ==
  /\ last.op = "rank"
  /\ last.userId \in DOMAIN profiles
  /\ profiles[last.userId].globalRank = 2
  /\ last.globalRank = 1
  /\ \E w \in DOMAIN profiles :
       /\ w # last.userId
       /\ profiles[w].totalPoints = profiles[last.userId].totalPoints
       /\ profiles[w].totalPoints > 0

(* C24: in a leaderboard entry a user with an alias is shown by the alias, *)
(* a user without alias who opted in to showing the real name is shown by  *)
(* the full name, and only a user with neither is shown by the censored    *)
(* form of the name (first character, mask characters, last character).    *)
C24_DisplayName ==
  last.op = "leaderboard" =>
    LET row == last.row
        hasAlias == row.leaderboardAlias # <<>>
    IN last.displayName =
         IF hasAlias THEN row.leaderboardAlias
         ELSE IF row.showFullNameInLeaderboard THEN row.userName
         ELSE censorName(row.userName)

OutOrder ==
  {<<"idle", "co_profile">>, <<"co_profile", "co_active">>,
   <<"co_active", "co_update">>, <<"co_update", "co_stats_read">>,
   <<"co_stats_read", "co_stats_write">>,
   <<"co_stats_write", "co_achievements">>,
   <<"co_achievements", "co_daily">>, <<"co_daily", "done">>}

AfterVisitWrite ==
  {"co_stats_read", "co_stats_write", "co_achievements", "co_daily"}

FailedIn(p) ==
  /\ pc[p] \in AfterVisitWrite
  /\ pc'[p] = "done"
  /\ loc'[p].result.message = MsgInternalError

(* C26: within one successful performCheckout the Visit is written to its  *)
(* terminal state first, then the profile counters are updated, then the   *)
(* achievement progress is evaluated, then the daily stats record is       *)
(* upserted; each step writes only its own table and starts after the      *)
(* earlier one is complete.                                                *)
C26_WriteOrder ==
  [][\A p \in Procs :
       (pc'[p] # pc[p]) =>
         /\ \/ <<pc[p], pc'[p]>> \in OutOrder
            \/ pc'[p] = "done" /\ ~loc'[p].result.success
         /\ (pc'[p] = "co_stats_read" =>
               /\ Terminal(visits'[loc[p].activeId])
               /\ UNCHANGED <<profiles, achievements, dailyStats>>)
         /\ (pc'[p] = "co_stats_write" => UNCHANGED store)
         /\ (pc'[p] = "co_achievements" =>
               /\ Terminal(visits[loc[p].activeId])
               /\ profiles'[loc[p].userId].totalCheckIns =
                    loc[p].current.totalCheckIns + 1
               /\ UNCHANGED <<visits, achievements, dailyStats>>)
         /\ (pc'[p] = "co_daily" =>
               /\ Terminal(visits[loc[p].activeId])
               /\ \A a \in {"explorer_1", "explorer_2"} :
                    <<loc[p].userId, a>> \in DOMAIN achievements'
               /\ UNCHANGED <<visits, dailyStats>>)
         /\ ((pc'[p] = "done" /\ loc'[p].result.success) =>
               /\ Terminal(visits[loc[p].activeId])
               /\ <<loc[p].active.masjidId, now>> \in DOMAIN dailyStats'
               /\ dailyStats' # dailyStats
               /\ UNCHANGED <<profiles, visits, achievements>>)]_vars

(* A checkout that ran through all four writes *)
C26_Witness ==
  \E p \in Procs :
    /\ pc[p] = "done"
    /\ loc[p].result.op = "checkout"
    /\ loc[p].result.success
    /\ Terminal(visits[loc[p].result.checkIn])
    /\ profiles[OutUser].totalCheckIns >= 1
    /\ <<OutUser, "explorer_1">> \in DOMAIN achievements
    /\ dailyStats # <<>>

(* C27: when the stats update, the achievement evaluation or the daily     *)
(* stats upsert fails after the Visit was written, the Visit stays in its  *)
(* terminal state, and with no other open Visit the next check-in finds no *)
(* active check-in.                                                        *)
C27_FailureKeepsVisit ==
  [][\A p \in Procs :
       FailedIn(p) =>
         /\ Terminal(visits[loc[p].activeId])
         /\ visits' = visits
         /\ loc[p].activeId \notin OpenVisits(visits', loc[p].userId)
         /\ (OpenVisits(visits', loc[p].userId) = {} =>
               getActiveCheckin(visits', loc[p].userId) = {0})]_vars

(* A checkout failed after its Visit was written, and the user has checked *)
(* in again since                                                          *)
C27_Witness ==
  /\ last.op = "checkin"
  /\ last.success
  /\ \E p \in Procs :
       /\ pc[p] = "done"
       /\ loc[p].result.message = MsgInternalError
       /\ Terminal(visits[loc[p].result.checkIn])
       /\ last.checkIn > loc[p].result.checkIn
       /\ profiles[OutUser].totalCheckIns = 0

(* C29: the uniqueMasjidsVisited value performCheckout passes to the       *)
(* achievement evaluator equals the profile's stored uniqueMasjidsVisited  *)
(* right after the stats update of the same checkout.                      *)
C29_EvaluatorInput ==
  [][\A p \in Procs :
       (pc[p] = "co_stats_write" /\ pc'[p] = "co_achievements") =>
         newUniqueMasjids(p) =
           profiles'[loc[p].userId].uniqueMasjidsVisited]_vars

(* C28: an evaluation that meets an active explorer achievement without a  *)
(* progress record of the profile creates the record with currentProgress  *)
(* = uniqueMasjidsVisited and isUnlocked = (currentProgress >=             *)
(* requiredCount); every record unlocked on creation adds its bonusPoints  *)
(* to totalPoints and to monthlyPoints and 1 to achievementCount, also     *)
(* when several records are unlocked by the same evaluation.               *)
C28_CreatedRecords ==
  [][(last'.op = "evaluate" \/ (last'.op = "checkout" /\ last'.success))
       => LET u == last'.userId
              n == IF last'.op = "evaluate" THEN last'.checkIn
                   ELSE profiles'[u].uniqueMasjidsVisited
              fresh == {k \in DOMAIN ExplorerAchievements :
                          <<u, ExplorerAchievements[k].id>>
                            \notin DOMAIN achievements}
              newly == Unlocked(achievements', u) \ Unlocked(achievements, u)
              bonus == BonusSum(achievements', u) - BonusSum(achievements, u)
          IN /\ \A k \in fresh :
                  LET key == <<u, ExplorerAchievements[k].id>>
                      required == ExplorerAchievements[k].requiredCount
                  IN /\ key \in DOMAIN achievements'
                     /\ achievements'[key].currentProgress = n
                     /\ achievements'[key].requiredProgress = required
                     /\ achievements'[key].isUnlocked = (n >= required)
                     /\ (n >= required) => ExplorerAchievements[k].id \in newly
             /\ profiles'[u].totalPoints =
                  profiles[u].totalPoints + ScoredInStep(u) + bonus
             /\ profiles'[u].monthlyPoints =
                  profiles[u].monthlyPoints + ScoredInStep(u) + bonus
             /\ profiles'[u].achievementCount =
                  profiles[u].achievementCount + Cardinality(newly)]_vars

(* The first evaluation of a profile, with a count above both thresholds:  *)
(* both records are created unlocked and both bonuses are credited         *)
C28_Witness ==
  /\ last.op = "evaluate"
  /\ last.checkIn = 2
  /\ LET u == last.userId
     IN /\ Unlocked(achievements, u) = {"explorer_1", "explorer_2"}
        /\ achievements[<<u, "explorer_1">>].currentProgress = 2
        /\ achievements[<<u, "explorer_2">>].currentProgress = 2
        /\ profiles[u].totalCheckIns = 0
        /\ profiles[u].achievementCount = 2
        /\ profiles[u].totalPoints = 75
        /\ profiles[u].monthlyPoints = 75

(* The achievements updateAchievementProgress must not touch: those of a   *)
(* category other than explorer and the inactive ones                      *)
DormantIds ==
  {AchievementDefinitions[k].id : k \in
     {j \in DOMAIN AchievementDefinitions :
        \/ AchievementDefinitions[j].type # "explorer"
        \/ ~AchievementDefinitions[j].isActive}}

(* C30: no evaluation and no checkout creates or changes a progress record *)
(* of an achievement that is not an explorer achievement or is inactive,   *)
(* and none awards points or an achievement count for one.                 *)
C30_DormantUntouched ==
  [][/\ \A u \in Users, a \in DormantIds :
          /\ <<u, a>> \in DOMAIN achievements' <=>
               <<u, a>> \in DOMAIN achievements
          /\ <<u, a>> \in DOMAIN achievements =>
               achievements'[<<u, a>>] = achievements[<<u, a>>]
     /\ \A u \in DOMAIN profiles :
          LET newly == (Unlocked(achievements', u) \ Unlocked(achievements, u))
                         \ DormantIds
          IN /\ profiles'[u].achievementCount =
                  profiles[u].achievementCount + Cardinality(newly)
             /\ profiles'[u].totalPoints =
                  profiles[u].totalPoints + ScoredInStep(u)
                    + (IF "explorer_1" \in newly THEN 25 ELSE 0)
                    + (IF "explorer_2" \in newly THEN 50 ELSE 0)]_vars

(* An evaluation with a count that meets every threshold, the record of    *)
(* the inactive achievement still locked and no streak record created      *)
C30_Witness ==
  /\ last.op = "evaluate"
  /\ last.checkIn = 3
  /\ Unlocked(achievements, DaysUser) = {"explorer_1", "explorer_2"}
  /\ <<DaysUser, "explorer_old">> \in DOMAIN achievements
  /\ ~achievements[<<DaysUser, "explorer_old">>].isUnlocked
  /\ achievements[<<DaysUser, "explorer_old">>].currentProgress = 0
  /\ <<DaysUser, "streak_2">> \notin DOMAIN achievements
  /\ profiles[DaysUser].uniqueMasjidsVisited >= 1

(* C31: the profile update of a checkout is atomic with respect to other   *)
(* requests of the user: the update adds the Visit's award to the          *)
(* totalPoints and the monthlyPoints stored at that moment and 1 to the    *)
(* stored totalCheckIns, so that no increment made in between is lost.     *)
C31_NoLostUpdate ==
  [][\A p \in Procs :
       (pc[p] = "co_stats_write" /\ pc'[p] = "co_achievements") =>
         LET u == loc[p].userId
             award == loc[p].active.actualPointsEarned
         IN /\ profiles'[u].totalPoints = profiles[u].totalPoints + award
            /\ profiles'[u].monthlyPoints = profiles[u].monthlyPoints + award
            /\ profiles'[u].totalCheckIns = profiles[u].totalCheckIns + 1]_vars

(* C32: every checkout that reaches the daily stats upsert ends            *)
(* successfully with exactly the record of (masjid, day) grown by one      *)
(* visitor and by the Visit's actualPointsEarned over what was stored,     *)
(* also when checkouts of different users at the masjid interleave.        *)
C32_DailyUpsert ==
  [][\A p \in Procs :
       (pc[p] = "co_daily_write" /\ pc'[p] = "done") =>
         LET key == <<loc[p].active.masjidId, now>>
             before == IF key \in DOMAIN dailyStats THEN dailyStats[key]
                       ELSE [visitorCount |-> 0, totalPointsAwarded |-> 0]
         IN /\ loc'[p].result.success
            /\ key \in DOMAIN dailyStats'
            /\ dailyStats'[key].visitorCount = before.visitorCount + 1
            /\ dailyStats'[key].totalPointsAwarded =
                 before.totalPointsAwarded + loc[p].active.actualPointsEarned]_vars

(* The profile, the Visits and the achievement progress records of w are   *)
(* the same before and after the step                                      *)
UserUntouched(w) ==
  /\ (w \in DOMAIN profiles' <=> w \in DOMAIN profiles)
  /\ (w \in DOMAIN profiles => profiles'[w] = profiles[w])
  /\ \A k \in DOMAIN visits' :
       visits'[k].userProfileId = w =>
         k \in DOMAIN visits /\ visits'[k] = visits[k]
  /\ \A a \in AchievementIds :
       /\ <<w, a>> \in DOMAIN achievements' <=> <<w, a>> \in DOMAIN achievements
       /\ <<w, a>> \in DOMAIN achievements =>
            achievements'[<<w, a>>] = achievements[<<w, a>>]

(* C33: a check-in or check-out request of one user never changes the     *)
(* profile, the Visits or the achievement progress records of another     *)
(* user, and interleaved with requests of other users only it ends as it   *)
(* does when run alone: a checkout that has closed its Visit returns       *)
(* success.                                                                *)
C33_UsersIndependent ==
  [][/\ \A p \in Procs :
          pc'[p] # pc[p] =>
            /\ \A w \in Users \ {loc'[p].userId} : UserUntouched(w)
            /\ (/\ pc[p] = "co_daily_write"
                /\ \A q \in Procs \ {p} :
                     pc[q] # "idle" => loc[q].userId # loc[p].userId)
                 => loc'[p].result.success
     /\ (last'.op = "checkin" /\ pc' = pc) =>
          \A w \in Users \ {last'.userId} : UserUntouched(w)]_vars

(* C34: resetMonthlyPoints sets monthlyPoints to 0 and monthlyRank to null *)
(* in every profile and changes nothing else; after recalculateRanks the   *)
(* globalRank values and the monthlyRank values are each a permutation of  *)
(* 1..N in which a profile with more totalPoints, respectively             *)
(* monthlyPoints, has the smaller rank, and nothing else has changed.      *)
C34_BatchJobs ==
  [][/\ last'.op = "resetMonthlyPoints" =>
          /\ DOMAIN profiles' = DOMAIN profiles
          /\ \A u \in DOMAIN profiles :
               profiles'[u] = [profiles[u] EXCEPT !.monthlyPoints = 0,
                                                  !.monthlyRank = Null]
          /\ UNCHANGED <<visits, achievements, dailyStats>>
     /\ last'.op = "recalculateRanks" =>
          LET N == Cardinality(DOMAIN profiles)
          IN /\ DOMAIN profiles' = DOMAIN profiles
             /\ {profiles'[u].globalRank : u \in DOMAIN profiles} = 1 .. N
             /\ {profiles'[u].monthlyRank : u \in DOMAIN profiles} = 1 .. N
             /\ \A u, w \in DOMAIN profiles :
                  /\ profiles[u].totalPoints > profiles[w].totalPoints
                       => profiles'[u].globalRank < profiles'[w].globalRank
                  /\ profiles[u].monthlyPoints > profiles[w].monthlyPoints
                       => profiles'[u].monthlyRank < profiles'[w].monthlyRank
             /\ \A u \in DOMAIN profiles :
                  profiles'[u] =
                    [profiles[u] EXCEPT !.globalRank = profiles'[u].globalRank,
                                        !.monthlyRank = profiles'[u].monthlyRank]
             /\ UNCHANGED <<visits, achievements, dailyStats>>]_vars

(* Ranks recalculated after a monthly reset: two profiles, the one with    *)
(* more totalPoints ranked first, one with monthlyPoints 0 again           *)
C34_Witness ==
  /\ last.op = "recalculateRanks"
  /\ \E u, w \in DOMAIN profiles :
       /\ profiles[u].totalPoints > profiles[w].totalPoints
       /\ profiles[w].totalPoints > 0
       /\ profiles[u].globalRank = 1
       /\ profiles[w].globalRank = 2
       /\ profiles[u].monthlyPoints = 0
       /\ profiles[w].monthlyPoints > 0
       /\ profiles[u].monthlyRank = 2

(* The Visits of u that are in a terminal state in V *)
TerminalVisits(V, u) ==
  {k \in DOMAIN V : V[k].userProfileId = u /\ Terminal(V[k])}

RECURSIVE EarnedFrom(_, _, _)
EarnedFrom(V, u, k) ==
  IF k > Len(V) THEN 0
  ELSE (IF V[k].userProfileId = u /\ Terminal(V[k])
        THEN V[k].actualPointsEarned ELSE 0)
       + EarnedFrom(V, u, k + 1)

(* The sum of actualPointsEarned over the terminal Visits of u *)
EarnedSum(V, u) == EarnedFrom(V, u, 1)

(* C35: an open Visit is scored at most once: whenever no checkout request *)
(* is in progress, the user's totalCheckIns equals the number of the       *)
(* user's Visits in a terminal state, and totalPoints holds each Visit's   *)
(* award once.                                                             *)
C35_ScoredOnce ==
  (\A p \in Procs :
      /\ pc[p] \in {"idle", "done"}
      /\ pc[p] = "done" => loc[p].result.message # MsgInternalError)
    => \A u \in DOMAIN profiles :
         /\ profiles[u].totalCheckIns = Cardinality(TerminalVisits(visits, u))
         /\ profiles[u].totalPoints =
              EarnedSum(visits, u) + BonusSum(achievements, u)

(* C36: with requests served one at a time, each profile's totalPoints is  *)
(* the sum of actualPointsEarned over its terminal Visits plus the sum of  *)
(* bonusPoints over its unlocked achievement records, and achievementCount *)
(* is the number of those records.                                         *)
C36_PointsLedger ==
  \A u \in DOMAIN profiles :
    /\ profiles[u].totalPoints =
         EarnedSum(visits, u) + BonusSum(achievements, u)
    /\ profiles[u].achievementCount = Cardinality(Unlocked(achievements, u))

(* Three Visits closed, one of them away from the masjid, and both         *)
(* explorer achievements unlocked                                          *)
C36_Witness ==
  /\ Cardinality(TerminalVisits(visits, DaysUser)) = 3
  /\ \E k \in TerminalVisits(visits, DaysUser) : visits[k].status = "incomplete"
  /\ \E k \in TerminalVisits(visits, DaysUser) : visits[k].status = "completed"
  /\ Unlocked(achievements, DaysUser) = {"explorer_1", "explorer_2"}
  /\ profiles[DaysUser].totalPoints > 75

(* C37: with requests served one at a time, each profile's                 *)
(* uniqueMasjidsVisited is the number of distinct masjids among its        *)
(* terminal Visits, and of the Visits of a profile to a masjid exactly the *)
(* earliest one carries the first-visit flag.                              *)
C37_UniqueMasjids ==
  /\ \A u \in DOMAIN profiles :
       profiles[u].uniqueMasjidsVisited =
         Cardinality({visits[k].masjidId : k \in TerminalVisits(visits, u)})
  /\ \A k \in DOMAIN visits :
       visits[k].isFirstVisitToMasjid <=>
         ~\E j \in 1 .. (k - 1) :
             /\ visits[j].userProfileId = visits[k].userProfileId
             /\ visits[j].masjidId = visits[k].masjidId

(* Two Visits to one masjid, the first closed away from it, and a Visit to *)
(* the other masjid still open: one masjid counted                         *)
C37_Witness ==
  /\ Len(visits) = 3
  /\ visits[1].masjidId = visits[2].masjidId
  /\ visits[1].status = "incomplete"
  /\ Terminal(visits[2])
  /\ visits[3].masjidId # visits[1].masjidId
  /\ visits[3].status = "checked_in"
  /\ visits[3].isFirstVisitToMasjid
  /\ profiles[DaysUser].uniqueMasjidsVisited = 1

(* C38: every profile's longest streak is at least its current streak, and *)
(* a profile with at least one checkout has a current streak of at least   *)
(* one.                                                                    *)
C38_StreakBounds ==
  \A u \in DOMAIN profiles :
    /\ profiles[u].longestStreak >= profiles[u].currentStreak
    /\ profiles[u].totalCheckIns >= 1 => profiles[u].currentStreak >= 1

(* A streak of two days broken by a gap: the current streak is back at one *)
(* while the longest streak stays two                                      *)
C38_Witness ==
  /\ DaysUser \in DOMAIN profiles
  /\ profiles[DaysUser].totalCheckIns = 3
  /\ profiles[DaysUser].currentStreak = 1
  /\ profiles[DaysUser].longestStreak = 2

(* C39: after any sequence of checkouts, achievement awards and monthly    *)
(* resets every profile satisfies 0 <= monthlyPoints <= totalPoints.       *)
C39_MonthlyWithinTotal ==
  \A u \in DOMAIN profiles :
    /\ 0 <= profiles[u].monthlyPoints
    /\ profiles[u].monthlyPoints <= profiles[u].totalPoints

(* Points scored before a monthly reset and an achievement bonus awarded   *)
(* after it: the month's points are positive and below the total           *)
C39_Witness ==
  /\ DaysUser \in DOMAIN profiles
  /\ profiles[DaysUser].achievementCount >= 1
  /\ profiles[DaysUser].monthlyPoints > 0
  /\ profiles[DaysUser].monthlyPoints < profiles[DaysUser].totalPoints

(* C40: the outcome of the check-out route depends only on the user and    *)
(* the coordinates: a step that serves a request with one path poi id is   *)
(* also the step that serves the same request with any other path poi id,  *)
(* and when it succeeds it closes the user's open Visit with the status    *)
(* and points computed from that Visit's own poi.                          *)
C40_PathIdIgnored ==
  [][\A u \in Users, id \in PathIds, lat \in RouteLats :
       CheckoutRoute(u, id, lat) =>
         /\ \A id2 \in PathIds : CheckoutRoute(u, id2, lat)
         /\ last'.success =>
              /\ last'.checkIn \in getActiveCheckin(visits, u)
              /\ visits'[last'.checkIn] =
                   CheckedOut(visits[last'.checkIn],
                              getMasjidById(directory,
                                            visits[last'.checkIn].masjidId),
                              lat, now)]_vars

(* A check-out has closed a Visit at mA as completed with its points while *)
(* the same user holds a terminal Visit at mB from before: requests naming *)
(* mA, mB or an unknown poi in the path all lead here                      *)
C40_Witness ==
  /\ last.op = "checkout"
  /\ last.success
  /\ last.checkIn = 2
  /\ visits[2].masjidId = "mA"
  /\ visits[2].status = "completed"
  /\ visits[2].actualPointsEarned = last.pointsEarned
  /\ visits[1].masjidId = "mB"
  /\ visits[1].userProfileId = visits[2].userProfileId
====
